---- MODULE Spec2Model ----
(***************************************************************************)
(* A model of the kilo terminal text editor (src/src/main.c).              *)
(*                                                                         *)
(* Bytes and keys are integers, strings are sequences of integers.  The   *)
(* global struct EditorConfig E is the record variable E; E.row is the    *)
(* sequence of rows (C index i is TLA+ index i+1) and E.numrows is its    *)
(* length.  A step that makes the C program dereference a row outside     *)
(* the row array, or memory it does not own, has undefined behaviour: the *)
(* model marks it (field undefined) and the process position becomes      *)
(* "undefined", where nothing more is known about the program.            *)
(***************************************************************************)
EXTENDS Integers, Sequences, FiniteSets, TLC

VARIABLES
    E,          \* struct EditorConfig E (main.c:68-84)
    quit_times, \* static int quit_times of editor_process_keypress
    find,       \* static last_match, direction of editor_find_callback
    pc,         \* position of the process in main()
    term,       \* the terminal: attributes in force, exit hooks, exit code
    op,         \* the branch the last handler took
    ctrlq_run,  \* history: number of Ctrl-Q key events in a row, most recent last
    kd,         \* one editor_read_key call: position, bytes read, result
    fs,         \* the file of the open/save round trip
    prompt,     \* a running editor_prompt: its locals, the keys it read, the callback's calls
    out,        \* the write() calls of the last editor_refresh_screen, each the buffer written
    E0          \* history: E as the last key of an Enter/Backspace round trip found it

vars == <<E, quit_times, find, pc, term, op, ctrlq_run, kd, fs, prompt, out, E0>>

(***************************************************************************)
(* Bounds of the model.                                                    *)
(***************************************************************************)
\* Rows the document may have before Enter is no longer pressed.
MaxRows == 2
\* Characters the document may hold before insert is no longer pressed.
MaxChars == 2
\* Value of E.dirty above which no further editing key is pressed.
MaxDirty == 2
\* How far E.cy may run past E.numrows before Down/Enter are no longer pressed.
MaxOver == 1
\* Length of the files that are opened.
MaxFileLen == 2
\* Terminal window: rows and columns reported by get_window_size.
WinRows == 3
WinCols == 3

(***************************************************************************)
(* Defines (main.c:40-57) and the bytes the code names.                    *)
(***************************************************************************)
TAB_STOP == 4
QUIT_TIMES == 3
BACKSPACE == 127
ARROW_LEFT == 1000
ARROW_RIGHT == 1001
ARROW_UP == 1002
ARROW_DOWN == 1003
HOME == 1004
END == 1005
DEL == 1006
PAGE_UP == 1007
PAGE_DOWN == 1008

NUL == 0
TAB == 9
LF == 10
CR == 13
ESC == 27
SPACE == 32
TILDE == 126
LBRACKET == 91

\* CTRL_KEY(k) ((k)&0x1f), for a non-negative k
CTRL_KEY(k) ==
    k % 32

\* the NULL pointer of E.filename and of editor_prompt's result
NULL == << >>

numrows(e) ==
    Len(e.row)

(***************************************************************************)
(* Row operations (main.c:265-384).                                        *)
(***************************************************************************)
RECURSIVE CxToRxLoop(_, _, _, _)
CxToRxLoop(chars, cx, j, rx) ==
    IF j >= cx THEN rx
    ELSE LET c == IF j < Len(chars) THEN chars[j + 1] ELSE NUL
             r == IF c = TAB THEN rx + ((TAB_STOP - 1) - (rx % TAB_STOP)) ELSE rx
         IN CxToRxLoop(chars, cx, j + 1, r + 1)

editor_row_cx_to_rx(row, cx) ==
    CxToRxLoop(row.chars, cx, 0, 0)

RECURSIVE RxToCxLoop(_, _, _, _)
RxToCxLoop(chars, rx, cx, cur_rx) ==
    IF cx >= Len(chars) THEN cx
    ELSE LET r == IF chars[cx + 1] = TAB
                  THEN cur_rx + ((TAB_STOP - 1) - (cur_rx % TAB_STOP))
                  ELSE cur_rx
         IN IF r + 1 > rx THEN cx ELSE RxToCxLoop(chars, rx, cx + 1, r + 1)

\* editor_row_rx_to_cx answering for the column after rx
editor_row_rx_to_cx_next(row, rx) ==
    RxToCxLoop(row.chars, rx + 1, 0, 0)

editor_row_rx_to_cx(row, rx) ==
    RxToCxLoop(row.chars, rx, 0, 0)

\* every tab rendered TAB_STOP spaces wide, wherever it starts
PadToTabStop_wide(render) ==
    render \o [i \in 1..(TAB_STOP - 1) |-> SPACE]

RECURSIVE PadToTabStop(_)
PadToTabStop(render) ==
    IF Len(render) % TAB_STOP # 0 THEN PadToTabStop(Append(render, SPACE)) ELSE render

RECURSIVE RenderLoop(_, _, _)
RenderLoop(chars, j, render) ==
    IF j >= Len(chars) THEN render
    ELSE IF chars[j + 1] = TAB
         THEN RenderLoop(chars, j + 1, PadToTabStop(Append(render, SPACE)))
         ELSE RenderLoop(chars, j + 1, Append(render, chars[j + 1]))

\* row->render and row->rsize recomputed from row->chars
editor_update_row(row) ==
    [row EXCEPT !.render = RenderLoop(row.chars, 0, << >>)]

\* row->rsize, which editor_update_row sets to the length of the render
rsize(row) ==
    Len(row.render)

InsertAt(s, at, x) ==
    SubSeq(s, 1, at) \o <<x>> \o SubSeq(s, at + 1, Len(s))

RemoveAt(s, at) ==
    SubSeq(s, 1, at) \o SubSeq(s, at + 2, Len(s))

editor_insert_row(e, at, s) ==
    IF at < 0 \/ at > numrows(e) THEN e
    ELSE [e EXCEPT
            !.row = InsertAt(e.row, at, editor_update_row([chars |-> s, render |-> << >>])),
            !.dirty = e.dirty + 1]

editor_append_row(e, s) ==
    editor_insert_row(e, numrows(e), s)

editor_del_row(e, at) ==
    IF at < 0 \/ at >= numrows(e) THEN e
    ELSE [e EXCEPT !.row = RemoveAt(e.row, at), !.dirty = e.dirty + 1]

\* a row pointer &E.row[i] that the row array does not hold
BadRow(e, i) ==
    i < 0 \/ i >= numrows(e)

Undefined(e) ==
    [e EXCEPT !.undefined = TRUE]

\* editor_row_insert_char without its E.dirty++
editor_row_insert_char_clean(e, i, at, c) ==
    IF BadRow(e, i) THEN Undefined(e)
    ELSE LET row == e.row[i + 1]
             a == IF at < 0 \/ at > Len(row.chars) THEN Len(row.chars) ELSE at
         IN [e EXCEPT
               !.row[i + 1] = editor_update_row([row EXCEPT !.chars = InsertAt(row.chars, a, c)])]

\* editor_row_insert_char(&E.row[i], at, c)
editor_row_insert_char(e, i, at, c) ==
    IF BadRow(e, i) THEN Undefined(e)
    ELSE LET row == e.row[i + 1]
             a == IF at < 0 \/ at > Len(row.chars) THEN Len(row.chars) ELSE at
         IN [e EXCEPT
               !.row[i + 1] = editor_update_row([row EXCEPT !.chars = InsertAt(row.chars, a, c)]),
               !.dirty = e.dirty + 1]

\* editor_row_append_string copying s to the front of the row instead of
\* behind its characters
editor_row_append_string_front(e, i, s) ==
    IF BadRow(e, i) THEN Undefined(e)
    ELSE [e EXCEPT
            !.row[i + 1] = editor_update_row([e.row[i + 1] EXCEPT !.chars = s \o e.row[i + 1].chars]),
            !.dirty = e.dirty + 1]

\* editor_row_append_string(&E.row[i], s, len)
editor_row_append_string(e, i, s) ==
    IF BadRow(e, i) THEN Undefined(e)
    ELSE [e EXCEPT
            !.row[i + 1] = editor_update_row([e.row[i + 1] EXCEPT !.chars = e.row[i + 1].chars \o s]),
            !.dirty = e.dirty + 1]

\* editor_row_delete_char without its editor_update_row
editor_row_delete_char_stale(e, i, at) ==
    IF BadRow(e, i) THEN Undefined(e)
    ELSE LET row == e.row[i + 1]
         IN IF at < 0 \/ at >= Len(row.chars) THEN e
            ELSE [e EXCEPT
                    !.row[i + 1] = [row EXCEPT !.chars = RemoveAt(row.chars, at)],
                    !.dirty = e.dirty + 1]

\* editor_row_delete_char(&E.row[i], at)
editor_row_delete_char(e, i, at) ==
    IF BadRow(e, i) THEN Undefined(e)
    ELSE LET row == e.row[i + 1]
         IN IF at < 0 \/ at >= Len(row.chars) THEN e
            ELSE [e EXCEPT
                    !.row[i + 1] = editor_update_row([row EXCEPT !.chars = RemoveAt(row.chars, at)]),
                    !.dirty = e.dirty + 1]

(***************************************************************************)
(* Editor operations (main.c:388-429).                                     *)
(***************************************************************************)
editor_insert_char(e, c) ==
    LET e1 == IF e.cy = numrows(e) THEN editor_append_row(e, << >>) ELSE e
        e2 == editor_row_insert_char(e1, e1.cy, e1.cx, c)
    IN IF e2.undefined THEN e2 ELSE [e2 EXCEPT !.cx = e2.cx + 1]

editor_insert_new_line(e) ==
    LET e1 ==
          IF e.cx = 0 THEN editor_insert_row(e, e.cy, << >>)
          ELSE IF BadRow(e, e.cy) THEN Undefined(e)
          ELSE LET row == e.row[e.cy + 1]
               IN IF e.cx < 0 \/ e.cx > Len(row.chars) THEN Undefined(e)
                  ELSE LET e0 == editor_insert_row(e, e.cy + 1,
                                     SubSeq(row.chars, e.cx + 1, Len(row.chars)))
                       IN [e0 EXCEPT !.row[e.cy + 1] =
                             editor_update_row([row EXCEPT !.chars = SubSeq(row.chars, 1, e.cx)])]
    IN IF e1.undefined THEN e1 ELSE [e1 EXCEPT !.cy = e.cy + 1, !.cx = 0]

editor_del_char(e) ==
    IF e.cy = numrows(e) THEN e
    ELSE IF e.cx = 0 /\ e.cy = 0 THEN e
    ELSE IF e.cx > 0
         THEN LET e1 == editor_row_delete_char(e, e.cy, e.cx - 1)
              IN IF e1.undefined THEN e1 ELSE [e1 EXCEPT !.cx = e.cx - 1]
         ELSE IF BadRow(e, e.cy) \/ BadRow(e, e.cy - 1) THEN Undefined(e)
              ELSE LET e1 == [e EXCEPT !.cx = Len(e.row[e.cy].chars)]
                       e2 == editor_row_append_string(e1, e.cy - 1, e.row[e.cy + 1].chars)
                       e3 == editor_del_row(e2, e.cy)
                   IN [e3 EXCEPT !.cy = e.cy - 1]

(***************************************************************************)
(* Cursor movement and scrolling (main.c:596-614, 786-817).                *)
(***************************************************************************)
editor_move_cursor(e, key) ==
    LET e1 ==
          IF key = ARROW_LEFT
          THEN IF e.cx # 0 THEN [e EXCEPT !.cx = e.cx - 1] ELSE e
          ELSE IF key = ARROW_RIGHT
          THEN IF e.cy >= numrows(e) THEN e
               ELSE IF BadRow(e, e.cy) THEN Undefined(e)
               ELSE IF e.cx < Len(e.row[e.cy + 1].chars)
                    THEN [e EXCEPT !.cx = e.cx + 1] ELSE e
          ELSE IF key = ARROW_DOWN
          THEN IF e.cy # numrows(e) - 1 THEN [e EXCEPT !.cy = e.cy + 1] ELSE e
          ELSE IF key = ARROW_UP
          THEN IF e.cy # 0 THEN [e EXCEPT !.cy = e.cy - 1] ELSE e
          ELSE e
    IN IF e1.undefined THEN e1
       ELSE IF e1.cy >= numrows(e1)
            THEN IF e1.cx > 0 THEN [e1 EXCEPT !.cx = 0] ELSE e1
            ELSE IF BadRow(e1, e1.cy) THEN Undefined(e1)
            ELSE LET rowlen == Len(e1.row[e1.cy + 1].chars)
                 IN IF e1.cx > rowlen THEN [e1 EXCEPT !.cx = rowlen] ELSE e1

\* while (times--) editor_move_cursor(key)
RECURSIVE MoveCursorTimes(_, _, _)
MoveCursorTimes(e, key, times) ==
    IF times = 0 \/ e.undefined THEN e
    ELSE MoveCursorTimes(editor_move_cursor(e, key), key, times - 1)

\* editor_scroll with the lower row test one row late (> for >=) and the column
\* offset left alone
editor_scroll_late(e) ==
    LET rx == IF e.cy < numrows(e) /\ ~BadRow(e, e.cy)
              THEN editor_row_cx_to_rx(e.row[e.cy + 1], e.cx) ELSE 0
        ro1 == IF e.cy < e.rowoffset THEN e.cy ELSE e.rowoffset
        ro2 == IF e.cy > ro1 + e.screenrows THEN e.cy - e.screenrows + 1 ELSE ro1
    IN [e EXCEPT !.rx = rx, !.rowoffset = ro2]

editor_scroll(e) ==
    LET rx == IF e.cy < numrows(e) /\ ~BadRow(e, e.cy)
              THEN editor_row_cx_to_rx(e.row[e.cy + 1], e.cx) ELSE 0
        bad == e.cy < numrows(e) /\ e.cx > 0
               /\ (BadRow(e, e.cy) \/ e.cx > Len(e.row[e.cy + 1].chars) + 1)
        ro1 == IF e.cy < e.rowoffset THEN e.cy ELSE e.rowoffset
        ro2 == IF e.cy >= ro1 + e.screenrows THEN e.cy - e.screenrows + 1 ELSE ro1
        co1 == IF rx < e.columnoffset THEN rx ELSE e.columnoffset
        co2 == IF rx >= co1 + e.screencolumns THEN rx - e.screencolumns + 1 ELSE co1
    IN IF bad THEN Undefined(e)
       ELSE [e EXCEPT !.rx = rx, !.rowoffset = ro2, !.columnoffset = co2]

(***************************************************************************)
(* Terminal mode and process exit (main.c:94-123).                         *)
(***************************************************************************)
\* E.statusmsg holds the format of the message; its arguments are not modelled
editor_set_status_message(e, fmt) ==
    [e EXCEPT !.statusmsg = fmt]

\* disable_raw_mode, the exit hook: tcsetattr(&E.original_termios) succeeds
\* (ok), or fails and die() calls exit a second time, from inside the hook,
\* which the C standard leaves undefined
disable_raw_mode(x, ok) ==
    IF ok THEN [x EXCEPT !.term.attrs = "original", !.term.restore = "done"]
    ELSE [x EXCEPT !.term.restore = "failed", !.pc = "undefined"]

\* the process ending as _exit(code) does, without running the hooks
ExitOutcomes_nohooks(t, code) ==
    {[term |-> [t EXCEPT !.exit_code = code], pc |-> "exited"]}

\* exit(code): the registered hooks run, then the process ends
ExitOutcomes(t, code) ==
    LET x == [term |-> [t EXCEPT !.exit_code = code], pc |-> "exited"]
    IN IF t.atexit = << >> THEN {x}
       ELSE {disable_raw_mode(x, ok) : ok \in BOOLEAN}

\* die(s): perror and exit(1)
die(t) ==
    ExitOutcomes(t, 1)

\* the process leaves through one of the outcomes xs of exit
Leave(xs) ==
    \E x \in xs : term' = x.term /\ pc' = x.pc

\* the zero-initialised global E before init_editor
ZeroE ==
    [cx |-> 0, cy |-> 0, rx |-> 0, rowoffset |-> 0, columnoffset |-> 0,
     screenrows |-> 0, screencolumns |-> 0, row |-> << >>, dirty |-> 0,
     filename |-> NULL, statusmsg |-> "", undefined |-> FALSE]

FindInit ==
    [last_match |-> -1, direction |-> 1, examined |-> << >>]

KdIdle ==
    [pc |-> "idle", c |-> 0, seq |-> << >>, consumed |-> << >>, ret |-> 0]

InitTerm ==
    [attrs |-> "original", saved |-> FALSE, atexit |-> << >>,
     restore |-> "none", exit_code |-> -1]

FsIdle ==
    [disk |-> << >>, orig |-> << >>, phase |-> "none"]

\* no prompt is running
PromptIdle ==
    [active |-> "none", buf |-> << >>, saved |-> <<0, 0, 0, 0>>,
     keys |-> << >>, calls |-> << >>, result |-> "none"]

Init ==
    /\ E = ZeroE
    /\ quit_times = QUIT_TIMES
    /\ find = FindInit
    /\ pc = "main"
    /\ term = InitTerm
    /\ op = [key |-> -1, effect |-> "none"]
    /\ ctrlq_run = 0
    /\ kd = KdIdle
    /\ fs = FsIdle
    /\ prompt = PromptIdle
    /\ out = << >>
    /\ E0 = E

\* a call of die() at position p
Die(p) ==
    /\ Leave(die(term))
    /\ op' = [key |-> -1, effect |-> "die"]
    /\ UNCHANGED <<E, quit_times, find, ctrlq_run, kd, fs, prompt, out, E0>>

\* enable_raw_mode: tcgetattr fails
EnableRawModeGetFails ==
    /\ pc = "main"
    /\ Die("tcgetattr")

\* enable_raw_mode: tcgetattr captures the attributes in E.original_termios
EnableRawModeGet ==
    /\ pc = "main"
    /\ term' = [term EXCEPT !.saved = TRUE]
    /\ pc' = "atexit"
    /\ op' = [key |-> -1, effect |-> "tcgetattr"]
    /\ UNCHANGED <<E, quit_times, find, ctrlq_run, kd, fs, prompt, out, E0>>

\* enable_raw_mode: atexit(disable_raw_mode)
EnableRawModeHook ==
    /\ pc = "atexit"
    /\ term' = [term EXCEPT !.atexit = <<"disable_raw_mode">>]
    /\ pc' = "tcsetattr"
    /\ op' = [key |-> -1, effect |-> "atexit"]
    /\ UNCHANGED <<E, quit_times, find, ctrlq_run, kd, fs, prompt, out, E0>>

\* enable_raw_mode: tcsetattr(&raw) succeeds
EnableRawMode ==
    /\ pc = "tcsetattr"
    /\ term' = [term EXCEPT !.attrs = "raw"]
    /\ pc' = "init"
    /\ op' = [key |-> -1, effect |-> "raw"]
    /\ UNCHANGED <<E, quit_times, find, ctrlq_run, kd, fs, prompt, out, E0>>

\* enable_raw_mode: tcsetattr(&raw) fails
EnableRawModeSetFails ==
    /\ pc = "tcsetattr"
    /\ Die("tcsetattr")

init_editor(e, rows, cols) ==
    [e EXCEPT !.cx = 0, !.cy = 0, !.rx = 0, !.rowoffset = 0, !.columnoffset = 0,
              !.row = << >>, !.dirty = 0, !.filename = NULL,
              !.statusmsg = "",
              !.screenrows = rows - 2, !.screencolumns = cols]

InitEditor ==
    /\ pc = "init"
    /\ E' = init_editor(E, WinRows, WinCols)
    /\ pc' = "open"
    /\ op' = [key |-> -1, effect |-> "init"]
    /\ UNCHANGED <<quit_times, find, term, ctrlq_run, kd, fs, prompt, out, E0>>

\* init_editor: get_window_size returns -1
InitEditorFails ==
    /\ pc = "init"
    /\ Die("get_window_size")

(***************************************************************************)
(* File i/o (main.c:433-503).                                              *)
(***************************************************************************)
\* index of the first LF of f, 0 when there is none
RECURSIVE FirstLF(_, _)
FirstLF(f, k) ==
    IF k > Len(f) THEN 0 ELSE IF f[k] = LF THEN k ELSE FirstLF(f, k + 1)

\* the lines getline returns one after the other, each with its LF if it has one
RECURSIVE GetLines(_)
GetLines(f) ==
    IF f = << >> THEN << >>
    ELSE LET k == FirstLF(f, 1)
         IN IF k = 0 THEN <<f>>
            ELSE <<SubSeq(f, 1, k)>> \o GetLines(SubSeq(f, k + 1, Len(f)))

\* while (linelen > 0 && (line[linelen-1] == '\n' || line[linelen-1] == '\r')) linelen--
RECURSIVE StripEol(_)
StripEol(line) ==
    IF Len(line) > 0 /\ (line[Len(line)] = LF \/ line[Len(line)] = CR)
    THEN StripEol(SubSeq(line, 1, Len(line) - 1))
    ELSE line

RECURSIVE AppendLines(_, _)
AppendLines(e, lines) ==
    IF lines = << >> THEN e
    ELSE AppendLines(editor_append_row(e, StripEol(Head(lines))), Tail(lines))

\* editor_open(filename) on a file whose content is f
editor_open(e, filename, f) ==
    [AppendLines([e EXCEPT !.filename = filename], GetLines(f)) EXCEPT !.dirty = 0]

RECURSIVE RowsToStringLoop(_, _, _)
RowsToStringLoop(row, j, buf) ==
    IF j >= Len(row) THEN buf
    ELSE RowsToStringLoop(row, j + 1, (buf \o row[j + 1].chars) \o <<LF>>)

\* editor_rows_to_string without the '\n' after the last row
editor_rows_to_string_joined(e) ==
    LET buf == RowsToStringLoop(e.row, 0, << >>)
    IN IF buf = << >> THEN buf ELSE SubSeq(buf, 1, Len(buf) - 1)

editor_rows_to_string(e) ==
    RowsToStringLoop(e.row, 0, << >>)

SaveOutcomes ==
    {"written", "open fails", "ftruncate fails", "write fails"}

\* editor_save clearing dirty whether or not the buffer was written
editor_save_file_anyway(e, outcome) ==
    editor_set_status_message([e EXCEPT !.dirty = 0],
                              IF outcome = "written" THEN "\"%s\" %dL, %db written"
                              ELSE "Write error: %s")

\* editor_save from main.c:484 on, E.filename being set
editor_save_file(e, outcome) ==
    LET buf == editor_rows_to_string(e)
    IN IF outcome = "written"
       THEN editor_set_status_message([e EXCEPT !.dirty = 0], "\"%s\" %dL, %db written")
       ELSE editor_set_status_message(e, "Write error: %s")

(***************************************************************************)
(* Key handling (main.c:819-890).                                          *)
(***************************************************************************)
CTRL_Q == CTRL_KEY(113)
CTRL_S == CTRL_KEY(115)
CTRL_F == CTRL_KEY(102)
CTRL_H == CTRL_KEY(104)
CTRL_L == CTRL_KEY(108)

\* case HOME / case END
KeyHomeEnd(e, c) ==
    IF c = HOME THEN [e EXCEPT !.cx = 0]
    ELSE IF e.cy < numrows(e)
         THEN IF BadRow(e, e.cy) THEN Undefined(e)
              ELSE [e EXCEPT !.cx = Len(e.row[e.cy + 1].chars)]
         ELSE e

\* case BACKSPACE / CTRL_KEY('h') / DEL
KeyDelete(e, c) ==
    LET e1 == IF c = DEL THEN editor_move_cursor(e, ARROW_RIGHT) ELSE e
    IN IF e1.undefined THEN e1 ELSE editor_del_char(e1)

\* case PAGE_UP / PAGE_DOWN
KeyPage(e, c) ==
    LET e1 == IF c = PAGE_UP THEN [e EXCEPT !.cy = e.rowoffset]
              ELSE LET y == e.rowoffset - 1
                   IN [e EXCEPT !.cy = IF y > numrows(e) THEN numrows(e) ELSE y]
    IN MoveCursorTimes(e1, IF c = PAGE_UP THEN ARROW_UP ELSE ARROW_DOWN, e.screenrows)

\* the switch of editor_process_keypress, but for Ctrl-Q, Ctrl-S and Ctrl-F
editor_process_keypress(e, c) ==
    IF c = CR THEN editor_insert_new_line(e)
    ELSE IF c = HOME \/ c = END THEN KeyHomeEnd(e, c)
    ELSE IF c = BACKSPACE \/ c = CTRL_H \/ c = DEL THEN KeyDelete(e, c)
    ELSE IF c = PAGE_UP \/ c = PAGE_DOWN THEN KeyPage(e, c)
    ELSE IF c \in {ARROW_DOWN, ARROW_LEFT, ARROW_RIGHT, ARROW_UP} THEN editor_move_cursor(e, c)
    ELSE IF c = CTRL_L \/ c = ESC THEN e
    ELSE editor_insert_char(e, c)

\* editor_refresh_screen at the top of the next iteration of main's loop
Refresh(e) ==
    IF e.undefined THEN e ELSE editor_scroll(e)

(***************************************************************************)
(* Find (main.c:507-568) and the prompt (main.c:742-784).                  *)
(***************************************************************************)
\* strstr(hay, needle): offset of the first occurrence, -1 for NULL
RECURSIVE StrStrFrom(_, _, _)
StrStrFrom(hay, needle, i) ==
    IF i + Len(needle) > Len(hay) THEN -1
    ELSE IF SubSeq(hay, i + 1, i + Len(needle)) = needle THEN i
    ELSE StrStrFrom(hay, needle, i + 1)

\* strstr that never finds the needle at the start of hay
strstr_skip(hay, needle) ==
    StrStrFrom(hay, needle, 1)

strstr(hay, needle) ==
    StrStrFrom(hay, needle, 0)

\* the for loop of editor_find_callback, from iteration i on
RECURSIVE FindScan(_, _, _, _, _)
FindScan(e, f, query, current, i) ==
    IF i >= numrows(e) THEN [e |-> e, f |-> f]
    ELSE LET c1 == current + f.direction
             c2 == IF c1 = -1 THEN numrows(e) - 1
                   ELSE IF c1 = numrows(e) THEN 0 ELSE c1
             f1 == [f EXCEPT !.examined = Append(f.examined, c2)]
         IN IF BadRow(e, c2) THEN [e |-> Undefined(e), f |-> f1]
            ELSE LET row == e.row[c2 + 1]
                     match == strstr(row.render, query)
                 IN IF match # -1
                    THEN [e |-> [e EXCEPT !.cy = c2, !.cx = editor_row_rx_to_cx(row, match)],
                          f |-> [f1 EXCEPT !.last_match = c2]]
                    ELSE FindScan(e, f1, query, c2, i + 1)

editor_find_callback(e, f, query, key) ==
    IF key = CR \/ key = ESC
    THEN [e |-> e, f |-> [last_match |-> -1, direction |-> 1, examined |-> << >>]]
    ELSE LET f1 == IF key = ARROW_RIGHT \/ key = ARROW_DOWN
                   THEN [f EXCEPT !.direction = 1]
                   ELSE IF key = ARROW_LEFT \/ key = ARROW_UP
                   THEN [f EXCEPT !.direction = -1]
                   ELSE [f EXCEPT !.last_match = -1, !.direction = 1]
             f2 == IF f1.last_match = 1 THEN [f1 EXCEPT !.direction = 1] ELSE f1
         IN FindScan(e, [f2 EXCEPT !.examined = << >>], query, f2.last_match, 0)

\* iscntrl(c) in the C locale: the control characters are 0..31 and 127.  It
\* is also called on the keys of enum EditorKey (>= 1000) and on the negative
\* values a byte >= 128 takes in a signed char, for which C leaves its answer
\* undefined; 0 is the answer modelled, the other answer making the key one
\* that the prompt ignores, as the keys >= 128 are anyway.
iscntrl(c) ==
    (0 <= c /\ c < 32) \/ c = 127

\* one iteration of editor_prompt's loop on key c: the buffer, and whether the
\* prompt goes on, returns NULL ("cancel") or returns the buffer ("commit")
editor_prompt_key(buf, c) ==
    IF c = DEL \/ c = CTRL_H \/ c = BACKSPACE
    THEN [buf |-> IF Len(buf) # 0 THEN SubSeq(buf, 1, Len(buf) - 1) ELSE buf,
          result |-> "continue"]
    ELSE IF c = ESC THEN [buf |-> buf, result |-> "cancel"]
    ELSE IF c = CR
    THEN [buf |-> buf, result |-> IF Len(buf) # 0 THEN "commit" ELSE "continue"]
    ELSE IF c < 128 /\ ~iscntrl(c) THEN [buf |-> Append(buf, c), result |-> "continue"]
    ELSE [buf |-> buf, result |-> "continue"]

PromptFmt(active) ==
    IF active = "find" THEN "Search: %s" ELSE "Save as: %s"

\* what a callback left, with the calls made of it
PromptCalled(cb, calls) ==
    [e |-> cb.e, f |-> cb.f, calls |-> calls]

\* if (callback) callback(buf, c): editor_find passes editor_find_callback,
\* editor_save passes NULL
PromptCallback(active, e, f, buf, c) ==
    IF active = "find"
    THEN PromptCalled(editor_find_callback(e, f, buf, c), <<[query |-> buf, key |-> c]>>)
    ELSE PromptCalled([e |-> e, f |-> f], << >>)

\* editor_find after editor_prompt returned NULL
editor_find_restore(e, saved) ==
    [e EXCEPT !.cx = saved[1], !.cy = saved[2],
              !.columnoffset = saved[3], !.rowoffset = saved[4]]

(***************************************************************************)
(* The process: main (main.c:912-927).  An action of the loop is one       *)
(* editor_process_keypress followed by the editor_refresh_screen of the    *)
(* next iteration, so the states with pc = "loop" are those in which the   *)
(* editor waits for a key with the screen drawn.                           *)
(***************************************************************************)
InsertKeys == {97, TAB}
EditKeys == {CR, BACKSPACE, CTRL_H, DEL} \cup InsertKeys
MoveKeys == {HOME, END, PAGE_UP, PAGE_DOWN, ARROW_DOWN, ARROW_LEFT, ARROW_RIGHT, ARROW_UP}
FileBytes == {97, TAB, LF, CR}
FileName == <<102>>

SeqsUpTo(S, n) ==
    UNION {[1..k -> S] : k \in 0..n}

Files ==
    SeqsUpTo(FileBytes, MaxFileLen)

RECURSIVE TotalChars(_)
TotalChars(row) ==
    IF row = << >> THEN 0 ELSE Len(Head(row).chars) + TotalChars(Tail(row))

\* the keys pressed keep the document and the counters within the bounds
Within(e, e2) ==
    /\ numrows(e2) > numrows(e) => numrows(e2) <= MaxRows
    /\ TotalChars(e2.row) > TotalChars(e.row) => TotalChars(e2.row) <= MaxChars
    /\ e2.dirty > e.dirty => e.dirty < MaxDirty
    /\ e2.cy > e.cy => e2.cy <= numrows(e2) + MaxOver

\* what the last handler did to the document, seen from outside
Effect(e, e2) ==
    IF e2.undefined THEN "undefined"
    ELSE IF numrows(e2) < numrows(e) THEN "join"
    ELSE IF numrows(e2) > numrows(e) THEN "split"
    ELSE IF e2.row # e.row THEN "edit"
    ELSE IF e2.cx # e.cx \/ e2.cy # e.cy THEN "move"
    ELSE "none"

\* op records the key of an editing or command key; the keys that only move the
\* cursor or do nothing are recorded as one, MOVED
MOVED == -2
Op(key, effect) ==
    [key |-> IF key \in MoveKeys \cup {CTRL_L, ESC} THEN MOVED ELSE key, effect |-> effect]

PcAfter(e) ==
    IF e.undefined THEN "undefined" ELSE "loop"

\* main without a file argument: status message and first refresh
StartEmpty ==
    /\ pc = "open"
    /\ E' = Refresh(editor_set_status_message(E, "-- INSERT --"))
    /\ pc' = "loop"
    /\ op' = Op(-1, "start")
    /\ UNCHANGED <<quit_times, find, term, ctrlq_run, kd, fs, prompt, out, E0>>

\* main with a file argument: editor_open, status message and first refresh
StartOpen ==
    /\ pc = "open"
    /\ \E f \in Files :
         E' = Refresh(editor_set_status_message(editor_open(E, FileName, f), "-- INSERT --"))
    /\ pc' = "loop"
    /\ op' = Op(-1, "open")
    /\ UNCHANGED <<quit_times, find, term, ctrlq_run, kd, fs, prompt, out, E0>>

\* editor_open: fopen fails
StartOpenFails ==
    /\ pc = "open"
    /\ E' = [E EXCEPT !.filename = FileName]
    /\ Leave(die(term))
    /\ op' = Op(-1, "die")
    /\ UNCHANGED <<quit_times, find, ctrlq_run, kd, fs, prompt, out, E0>>

\* editor_read_key in editor_process_keypress: read returns -1, errno not EAGAIN
ReadFails ==
    /\ pc = "loop"
    /\ Leave(die(term))
    /\ op' = Op(-1, "die")
    /\ UNCHANGED <<E, quit_times, find, ctrlq_run, kd, fs, prompt, out, E0>>

\* the end of editor_process_keypress and the next refresh, the handler of key c
\* having left e2
KeyDone(c, e2) ==
    /\ Within(E, e2)
    /\ E' = Refresh(e2)
    /\ op' = Op(c, Effect(E, e2))
    /\ pc' = PcAfter(E')
    /\ quit_times' = IF E'.undefined THEN quit_times ELSE QUIT_TIMES
    /\ ctrlq_run' = 0
    /\ UNCHANGED <<find, term, kd, fs, prompt, out, E0>>

\* a key of the switch that edits or moves: the handler, quit_times = QUIT_TIMES
KeyStep(c) ==
    /\ pc = "loop"
    /\ KeyDone(c, editor_process_keypress(E, c))

KeyEdit ==
    \E c \in EditKeys : KeyStep(c)

KeyMove ==
    \E c \in MoveKeys : KeyStep(c)

KeyIgnored ==
    \E c \in {CTRL_L, ESC} : KeyStep(c)

\* the test of case CTRL_KEY('q') giving up one warning early
QuitWarns_early(e, qt) ==
    e.dirty # 0 /\ qt > 1

\* case CTRL_KEY('q'): if (E.dirty && quit_times > 0)
QuitWarns(e, qt) ==
    e.dirty # 0 /\ qt > 0

KeyQuitWarn ==
    /\ pc = "loop"
    /\ QuitWarns(E, quit_times)
    /\ E' = Refresh(editor_set_status_message(E,
              "No write since last change, quit again %d more times to ignore"))
    /\ quit_times' = quit_times - 1
    /\ ctrlq_run' = ctrlq_run + 1
    /\ op' = Op(CTRL_Q, "warn")
    /\ UNCHANGED <<find, pc, term, kd, fs, prompt, out, E0>>

KeyQuit ==
    /\ pc = "loop"
    /\ ~QuitWarns(E, quit_times)
    /\ Leave(ExitOutcomes(term, 0))
    /\ ctrlq_run' = ctrlq_run + 1
    /\ op' = Op(CTRL_Q, "exit")
    /\ UNCHANGED <<E, quit_times, find, kd, fs, prompt, out, E0>>

\* case CTRL_KEY('s') with E.filename set
KeySave ==
    /\ pc = "loop"
    /\ E.filename # NULL
    /\ \E outcome \in SaveOutcomes :
         /\ E' = Refresh(editor_save_file(E, outcome))
         /\ op' = Op(CTRL_S, outcome)
    /\ quit_times' = QUIT_TIMES
    /\ ctrlq_run' = 0
    /\ UNCHANGED <<find, pc, term, kd, fs, prompt, out, E0>>

\* the end of an iteration of editor_prompt's loop: st is what the key did to
\* the buffer, cb what the callback left; when the prompt goes on, the status
\* message and the refresh that start the next iteration
PromptShow(active, st, cb, e2) ==
    [e |-> e2, f |-> cb.f, buf |-> st.buf, keys |-> << >>, calls |-> cb.calls,
     result |-> IF cb.e.undefined \/ e2.undefined THEN "undefined" ELSE st.result]

PromptNext(active, st, cb) ==
    PromptShow(active, st, cb,
               IF st.result = "continue"
               THEN Refresh(editor_set_status_message(cb.e, PromptFmt(active)))
               ELSE cb.e)

\* the iteration that tells the callback nothing of the ESC that cancels
PromptKey_silent(active, e, f, c, st) ==
    PromptNext(active, st,
               IF st.result = "cancel"
               THEN PromptCalled([e |-> editor_set_status_message(e, "Canceled"), f |-> f], << >>)
               ELSE PromptCallback(active,
                                   IF st.result = "commit" THEN editor_set_status_message(e, "")
                                   ELSE e,
                                   f, st.buf, c))

\* the status message of the key that ends the prompt, then the callback
PromptKey(active, e, f, c, st) ==
    PromptNext(active, st,
               PromptCallback(active,
                              IF st.result = "cancel" THEN editor_set_status_message(e, "Canceled")
                              ELSE IF st.result = "commit" THEN editor_set_status_message(e, "")
                              ELSE e,
                              f, st.buf, c))

\* one iteration of editor_prompt's loop from its editor_read_key on, key c read
PromptIter(active, e, f, buf, c) ==
    PromptKey(active, e, f, c, editor_prompt_key(buf, c))

\* editor_prompt's loop on the keys read one after the other, up to the key on
\* which it returns; r is the state after the last iteration, keys the keys not
\* read
RECURSIVE PromptLoop(_, _, _)
PromptLoop(active, r, keys) ==
    IF r.result # "continue" \/ keys = << >> THEN [r EXCEPT !.keys = keys]
    ELSE PromptLoop(active, PromptIter(active, r.e, r.f, r.buf, Head(keys)), Tail(keys))

\* editor_prompt up to its first editor_read_key: the empty buffer, the status
\* message and the refresh
PromptBegin(active, e, f) ==
    [e |-> Refresh(editor_set_status_message(e, PromptFmt(active))), f |-> f,
     buf |-> << >>, keys |-> << >>, calls |-> << >>, result |-> "continue"]

\* editor_prompt(prompt, callback) reading keys
editor_prompt(active, e, f, keys) ==
    PromptLoop(active, PromptBegin(active, e, f), keys)

\* editor_find after editor_prompt returned r: the cursor and the offsets saved
\* are restored on NULL
FindDone(r, saved) ==
    IF r.result = "cancel" THEN [r EXCEPT !.e = editor_find_restore(r.e, saved)] ELSE r

\* editor_find reading keys: what the prompt left, with E as editor_find leaves it
editor_find(e, f, keys) ==
    FindDone(editor_prompt("find", e, f, keys), <<e.cx, e.cy, e.columnoffset, e.rowoffset>>)

\* editor_save after editor_prompt returned r, the write ending in outcome
SaveAsDone(r, outcome) ==
    IF r.result = "cancel"
    THEN [r EXCEPT !.e = editor_set_status_message(r.e, "Saving canceled")]
    ELSE IF r.result = "commit"
    THEN [r EXCEPT !.e = editor_save_file([r.e EXCEPT !.filename = r.buf], outcome)]
    ELSE r

\* editor_save with E.filename == NULL reading keys
editor_save_as(e, f, keys, outcome) ==
    SaveAsDone(editor_prompt("save", e, f, keys), outcome)

\* Keys typed into a prompt before the key that ends it, and how many of them.
MaxPromptKeys == 1
PromptTypeKeys == {97, BACKSPACE, ARROW_UP, ARROW_DOWN}
PromptRuns ==
    {ks \o <<t>> : ks \in SeqsUpTo(PromptTypeKeys, MaxPromptKeys), t \in {ESC, CR}}

\* the end of editor_process_keypress after a handler that ran a prompt to its
\* return: r is what the handler left, effect what op records of it
PromptDone(r, key, effect) ==
    /\ r.keys = << >>
    /\ r.result \in {"cancel", "commit", "undefined"}
    /\ E' = Refresh(r.e)
    /\ find' = r.f
    /\ op' = Op(key, IF r.result = "commit" THEN effect ELSE r.result)
    /\ pc' = PcAfter(E')
    /\ quit_times' = IF E'.undefined THEN quit_times ELSE QUIT_TIMES
    /\ ctrlq_run' = 0
    /\ UNCHANGED <<term, kd, fs, prompt, out, E0>>

\* case CTRL_KEY('f'): editor_find, the prompt reading the keys ks
KeyFind ==
    /\ pc = "loop"
    /\ \E ks \in PromptRuns : PromptDone(editor_find(E, find, ks), CTRL_F, "commit")

\* case CTRL_KEY('s') with E.filename == NULL: editor_save, the prompt reading ks
KeySaveAs ==
    /\ pc = "loop"
    /\ E.filename = NULL
    /\ \E ks \in PromptRuns, outcome \in SaveOutcomes :
         PromptDone(editor_save_as(E, find, ks, outcome), CTRL_S, outcome)

\* editor_read_key fails inside a prompt after the keys ks were read: r is what
\* the prompt left
PromptDies(r) ==
    /\ r.result = "continue"
    /\ E' = r.e
    /\ find' = r.f

PromptReadFails ==
    /\ pc = "loop"
    /\ \E active \in {"find", "save"}, ks \in SeqsUpTo(PromptTypeKeys, MaxPromptKeys) :
         /\ active = "save" => E.filename = NULL
         /\ PromptDies(editor_prompt(active, E, find, ks))
    /\ Leave(die(term))
    /\ op' = Op(-1, "die")
    /\ UNCHANGED <<quit_times, ctrlq_run, kd, fs, prompt, out, E0>>

Next ==
    \/ EnableRawModeGetFails
    \/ EnableRawModeGet
    \/ EnableRawModeHook
    \/ EnableRawMode
    \/ EnableRawModeSetFails
    \/ InitEditor
    \/ InitEditorFails
    \/ StartEmpty
    \/ StartOpen
    \/ StartOpenFails
    \/ ReadFails
    \/ PromptReadFails
    \/ KeyEdit
    \/ KeyMove
    \/ KeyIgnored
    \/ KeyQuitWarn
    \/ KeyQuit
    \/ KeySave
    \/ KeySaveAs
    \/ KeyFind

Spec ==
    Init /\ [][Next]_vars

(***************************************************************************)
(* Properties of the editor (specification Spec).                          *)
(***************************************************************************)
\* the row the cursor is on, when there is one
OnRow(e) ==
    e.cy >= 0 /\ e.cy < numrows(e)

\* C1: after any sequence of key events from an empty buffer or a freshly
\* opened file, 0 <= cy <= numrows and 0 <= cx <= size of row cy (cx = 0 when
\* cy = numrows), and no row outside [0, numrows) is ever dereferenced.
C1_CursorInDocument ==
    /\ ~E.undefined
    /\ pc = "loop" =>
         /\ 0 <= E.cy /\ E.cy <= numrows(E)
         /\ 0 <= E.cx
         /\ E.cx <= (IF OnRow(E) THEN Len(E.row[E.cy + 1].chars) ELSE 0)

\* the tab-expanded projection of cx on a row: the length of what the first cx
\* characters render to
Projection(row, cx) ==
    Len(RenderLoop(SubSeq(row.chars, 1, IF cx < Len(row.chars) THEN cx ELSE Len(row.chars)),
                   0, << >>))

\* C2: once editor_scroll has run for the next render, with screenrows >= 1
\* and screencolumns >= 1, rowoffset <= cy < rowoffset + screenrows and
\* columnoffset <= rx < columnoffset + screencolumns, rx being the tab-expanded
\* projection of cx on row cy.
C2_Viewport ==
    (pc = "loop" /\ E.screenrows >= 1 /\ E.screencolumns >= 1) =>
        /\ E.rowoffset <= E.cy /\ E.cy < E.rowoffset + E.screenrows
        /\ E.columnoffset <= E.rx /\ E.rx < E.columnoffset + E.screencolumns
        /\ E.rx = IF OnRow(E) THEN Projection(E.row[E.cy + 1], E.cx) ELSE 0

\* a cursor move that scrolled the window down and to the right, into a tab
C2_Scrolled ==
    /\ pc = "loop" /\ op.key = MOVED /\ op.effect = "move"
    /\ E.rowoffset > 0 /\ E.columnoffset > 0
    /\ E.rx > E.cx

\* C3: dirty is 0 right after open; every key action that changes the rows
\* strictly increases dirty; a successful save sets it to 0; and no operation
\* other than open and a successful save ever decreases it.
C3_DirtyCounter ==
    [][/\ op'.effect = "open" => E'.dirty = 0
       /\ (pc = "loop" /\ pc' = "loop" /\ E'.row # E.row) => E'.dirty > E.dirty
       /\ op'.effect = "written" => E'.dirty = 0
       /\ E'.dirty < E.dirty => op'.effect \in {"open", "written"}]_vars

\* a buffer that was started empty, edited, and saved under a name typed into
\* the prompt
C3_SavedAfterEdit ==
    /\ pc = "loop" /\ op.key = CTRL_S /\ op.effect = "written"
    /\ E.filename # NULL /\ E.filename # FileName
    /\ TotalChars(E.row) > 0
    /\ E.dirty = 0

\* C7: when dirty = 0 a single Ctrl-Q terminates the editor with exit code 0;
\* when dirty # 0 the editor terminates on Ctrl-Q only if the three key events
\* just before it were Ctrl-Q too (three warnings, quit on the fourth), and any
\* other key event in between resets the count to three.  ctrlq_run is the
\* number of Ctrl-Q key events in a row up to the current state.
C7_QuitConfirmation ==
    [][/\ (pc = "loop" /\ op'.key = CTRL_Q /\ E.dirty = 0) =>
            /\ op'.effect = "exit"
            /\ pc' \in {"exited", "undefined"}
            /\ pc' = "exited" => term'.exit_code = 0
       /\ (pc = "loop" /\ op'.key = CTRL_Q /\ E.dirty # 0) =>
            /\ op'.effect = "exit" <=> ctrlq_run = QUIT_TIMES
            /\ op'.effect = "warn" <=> ctrlq_run < QUIT_TIMES
            /\ op'.effect = "warn" => pc' = "loop" /\ quit_times' = quit_times - 1
            /\ (op'.effect = "exit" /\ pc' = "exited") => term'.exit_code = 0
       /\ (pc = "loop" /\ pc' = "loop" /\ op'.key # CTRL_Q) =>
            quit_times' = QUIT_TIMES /\ ctrlq_run' = 0]_vars

\* the editor left on the fourth Ctrl-Q in a row, the buffer modified
C7_QuitOnFourth ==
    /\ pc = "exited" /\ op.key = CTRL_Q /\ op.effect = "exit"
    /\ E.dirty # 0 /\ ctrlq_run = QUIT_TIMES + 1 /\ quit_times = 0
    /\ term.exit_code = 0

\* C8: on every exit path taken after raw mode was entered (Ctrl-Q with code
\* 0, die() with code 1) the terminal attributes are set back to the captured
\* originals before the process terminates, and the restoration hook is
\* registered before the raw attributes are applied.
C8_RawModeRelease ==
    /\ pc = "exited" => term.attrs = "original"
    /\ (term.exit_code # -1 /\ term.atexit # << >>) => term.restore # "none"
    /\ term.restore = "done" => term.saved
    /\ term.attrs = "raw" => (term.saved /\ term.atexit = <<"disable_raw_mode">>)

\* the editor in raw mode died of a failed read, and the terminal is as it was
C8_DiedRestored ==
    /\ pc = "exited" /\ term.exit_code = 1 /\ op.effect = "die"
    /\ E.screenrows > 0 /\ E.statusmsg # ""
    /\ term.restore = "done" /\ term.attrs = "original"

\* C15: when Ctrl-S fails (open, truncate or write fails) or the Save-as
\* prompt is cancelled, the rows, the cursor and the dirty counter are
\* unchanged, a status message is set, and the editor keeps processing keys;
\* dirty becomes 0 only when the full buffer was written.
C15_SaveFailureRecoverable ==
    [][(pc = "loop" /\ op'.key = CTRL_S) =>
          /\ op'.effect \in {"open fails", "ftruncate fails", "write fails", "cancel"} =>
               /\ E'.row = E.row
               /\ E'.cx = E.cx /\ E'.cy = E.cy
               /\ E'.dirty = E.dirty
               /\ E'.statusmsg = IF op'.effect = "cancel" THEN "Saving canceled"
                                 ELSE "Write error: %s"
               /\ pc' = "loop"
          /\ (E'.dirty = 0 /\ E.dirty # 0) => op'.effect = "written"
          /\ op'.effect = "written" => E'.dirty = 0]_vars

\* a modified document could not be written and is still there, still modified
C15_WriteFailedStillDirty ==
    /\ pc = "loop" /\ op.key = CTRL_S /\ op.effect = "write fails"
    /\ E.dirty > 0 /\ TotalChars(E.row) > 0
    /\ E.statusmsg = "Write error: %s"

\* the tab expansion of chars: each tab replaced by spaces up to the next
\* multiple of TAB_STOP
RECURSIVE TabExpansion(_)
TabExpansion(chars) ==
    IF chars = << >> THEN << >>
    ELSE LET before == TabExpansion(SubSeq(chars, 1, Len(chars) - 1))
         IN IF chars[Len(chars)] = TAB
            THEN before \o [i \in 1..(TAB_STOP - (Len(before) % TAB_STOP)) |-> SPACE]
            ELSE Append(before, chars[Len(chars)])

\* C18: at every refresh, after any sequence of editing operations (insert
\* char, delete char, Enter split, Backspace join, row insert/delete), every
\* row's render equals the tab expansion of its current chars (each tab
\* replaced by spaces up to the next multiple of TAB_STOP), rsize is that
\* expansion's length, and rx >= cx for the cursor's row.
C18_RenderConsistent ==
    pc = "loop" =>
        /\ \A i \in 1..numrows(E) :
             /\ E.row[i].render = TabExpansion(E.row[i].chars)
             /\ rsize(E.row[i]) = Len(TabExpansion(E.row[i].chars))
        /\ OnRow(E) => E.rx >= E.cx

\* Backspace joined an empty row to a row that is one tab, and the cursor
\* stands behind the tab, four columns in
C18_JoinedBehindTab ==
    /\ pc = "loop" /\ op.effect = "join"
    /\ OnRow(E) /\ E.row[E.cy + 1].chars = <<TAB>>
    /\ E.cx = 1 /\ E.rx = TAB_STOP

\* the characters of the rows of a document
Chars(row) ==
    [i \in 1..Len(row) |-> row[i].chars]

\* rows with row cy (counted from 0) appended to the row before it and removed
Joined(rows, cy) ==
    [i \in 1..(Len(rows) - 1) |->
        IF i < cy THEN rows[i] ELSE IF i = cy THEN rows[cy] \o rows[cy + 1] ELSE rows[i + 1]]

\* C9: for any document and any cy with 0 < cy < numrows and cx = 0, Backspace
\* makes row cy-1 the old row cy-1 followed by the old row cy, removes row cy
\* (all other rows and their order unchanged), and leaves the cursor at cy-1
\* with cx the old length of row cy-1.
C9_BackspaceJoins ==
    [][(/\ pc = "loop" /\ op'.key \in {BACKSPACE, CTRL_H}
        /\ 0 < E.cy /\ E.cy < numrows(E) /\ E.cx = 0) =>
            /\ pc' = "loop"
            /\ numrows(E') = numrows(E) - 1
            /\ Chars(E'.row) = Joined(Chars(E.row), E.cy)
            /\ E'.cy = E.cy - 1
            /\ E'.cx = Len(E.row[E.cy].chars)]_vars

\* Backspace has joined two rows that both hold characters
C9_JoinedTwoRows ==
    /\ pc = "loop" /\ op.key = BACKSPACE /\ op.effect = "join"
    /\ OnRow(E) /\ E.cx > 0 /\ E.cx < Len(E.row[E.cy + 1].chars)

\* C10: Delete with the cursor at the end of the last row (cy = numrows-1,
\* cx = row size) leaves every row, numrows and dirty unchanged, as does
\* Backspace at (cx = 0, cy = 0).
C10_DeleteAtBoundary ==
    [][/\ (/\ pc = "loop" /\ op'.key = DEL
           /\ numrows(E) > 0 /\ E.cy = numrows(E) - 1
           /\ E.cx = Len(E.row[E.cy + 1].chars)) =>
               E'.row = E.row /\ E'.dirty = E.dirty
       /\ (/\ pc = "loop" /\ op'.key \in {BACKSPACE, CTRL_H}
           /\ E.cx = 0 /\ E.cy = 0) =>
               E'.row = E.row /\ E'.dirty = E.dirty]_vars

(***************************************************************************)
(* The key decoder editor_read_key (main.c:125-222), one read() at a time. *)
(* A read result is the byte read (read returned 1), NODATA (read         *)
(* returned 0, or -1 with EAGAIN: the 100 ms timeout) or FAIL (read       *)
(* returned -1 with another errno).                                        *)
(***************************************************************************)
NODATA == -1
FAIL == -2

\* '0'..'9', 'A'..'H', 'O', and bytes that are no part of any sequence
KeyBytes ==
    {ESC, LBRACKET, TILDE, BACKSPACE, CR, 97} \cup (48..57) \cup (65..72) \cup {79}

ReadResults ==
    KeyBytes \cup {NODATA, FAIL}

\* switch (seq[1]) of main.c:146-161, seq[2] being '~'
DecodeCsiDigit(d) ==
    IF d = 49 THEN HOME
    ELSE IF d = 51 THEN DEL
    ELSE IF d = 52 THEN END
    ELSE IF d = 53 THEN PAGE_UP
    ELSE IF d = 54 THEN PAGE_DOWN
    ELSE IF d = 55 THEN HOME
    ELSE IF d = 56 THEN END
    ELSE ESC

\* switch (seq[1]) of main.c:164-185, seq[1] being no digit
DecodeCsiLetter(b) ==
    IF b = 65 THEN ARROW_UP
    ELSE IF b = 66 THEN ARROW_DOWN
    ELSE IF b = 67 THEN ARROW_RIGHT
    ELSE IF b = 68 THEN ARROW_LEFT
    ELSE IF b = 72 THEN HOME
    ELSE IF b = 70 THEN END
    ELSE IF b = 53 THEN PAGE_UP
    ELSE IF b = 54 THEN PAGE_DOWN
    ELSE IF b = 55 THEN HOME
    ELSE IF b = 56 THEN END
    ELSE ESC

\* switch (seq[1]) of main.c:187-198, seq[0] being '0'
DecodeEscZero(b) ==
    IF b = 53 THEN PAGE_UP
    ELSE IF b = 54 THEN PAGE_DOWN
    ELSE IF b = 72 THEN HOME
    ELSE IF b = 70 THEN END
    ELSE ESC

\* switch (seq[1]) of main.c:212-217 after a leading '~', seq[2] being '~'
DecodeTilde(d) ==
    IF d = 53 THEN PAGE_UP
    ELSE IF d = 54 THEN PAGE_DOWN
    ELSE TILDE

IsDigit(b) ==
    b >= 48 /\ b <= 57

\* the first byte starts a lookahead: if (c == '\033') ... else if (c == '~')
StartsLookahead(c) ==
    c = ESC \/ c = TILDE

KdReturn(k, key) ==
    [k EXCEPT !.pc = "ret", !.ret = key]

KdTake(k, r, next) ==
    [k EXCEPT !.seq = Append(k.seq, r), !.consumed = Append(k.consumed, r), !.pc = next]

\* editor_read_key from one read() to the next, r being what the read gives
editor_read_key(k, r) ==
    IF k.pc = "first"
    THEN IF r = FAIL THEN [k EXCEPT !.pc = "died"]
         ELSE IF r = NODATA THEN k
         ELSE LET k1 == [k EXCEPT !.c = r, !.consumed = <<r>>]
              IN IF StartsLookahead(r) THEN [k1 EXCEPT !.pc = "seq0"]
                 ELSE KdReturn(k1, r)
    ELSE IF r = NODATA \/ r = FAIL THEN KdReturn(k, k.c)
    ELSE IF k.pc = "seq0" THEN KdTake(k, r, "seq1")
    ELSE IF k.pc = "seq1"
    THEN LET k1 == KdTake(k, r, "seq2")
         IN IF k.c = ESC
            THEN IF k.seq[1] = LBRACKET
                 THEN IF IsDigit(r) THEN k1 ELSE KdReturn(k1, DecodeCsiLetter(r))
                 ELSE IF k.seq[1] = 48 THEN KdReturn(k1, DecodeEscZero(r))
                 ELSE KdReturn(k1, k.c)
            ELSE IF k.seq[1] = LBRACKET THEN k1 ELSE KdReturn(k1, k.c)
    ELSE LET k1 == KdTake(k, r, "ret")
         IN IF r # TILDE THEN KdReturn(k1, k.c)
            ELSE IF k.c = ESC THEN KdReturn(k1, DecodeCsiDigit(k.seq[2]))
            ELSE KdReturn(k1, DecodeTilde(k.seq[2]))

KdFirst ==
    [pc |-> "first", c |-> 0, seq |-> << >>, consumed |-> << >>, ret |-> 0]

InitKey ==
    /\ E = ZeroE
    /\ quit_times = QUIT_TIMES
    /\ find = FindInit
    /\ pc = "main"
    /\ term = InitTerm
    /\ op = [key |-> -1, effect |-> "none"]
    /\ ctrlq_run = 0
    /\ kd = KdFirst
    /\ fs = FsIdle
    /\ prompt = PromptIdle
    /\ out = << >>
    /\ E0 = E

\* one read() of a running editor_read_key
KeyRead ==
    /\ kd.pc \in {"first", "seq0", "seq1", "seq2"}
    /\ \E r \in ReadResults : kd' = editor_read_key(kd, r)
    /\ UNCHANGED <<E, quit_times, find, pc, term, op, ctrlq_run, fs, prompt, out, E0>>

\* editor_read_key has returned and is called again
KeyCall ==
    /\ kd.pc = "ret"
    /\ kd' = KdFirst
    /\ UNCHANGED <<E, quit_times, find, pc, term, op, ctrlq_run, fs, prompt, out, E0>>

NextKey ==
    \/ KeyRead
    \/ KeyCall

SpecKey ==
    InitKey /\ [][NextKey]_vars

(***************************************************************************)
(* Properties of the key decoder (specification SpecKey).                  *)
(***************************************************************************)
\* the decoding table as a function of the bytes read after the ESC
CsiTable(seq) ==
    IF Len(seq) = 2 /\ seq[1] = LBRACKET
    THEN CASE seq[2] = 65 -> ARROW_UP
           [] seq[2] = 66 -> ARROW_DOWN
           [] seq[2] = 67 -> ARROW_RIGHT
           [] seq[2] = 68 -> ARROW_LEFT
           [] seq[2] = 72 -> HOME
           [] seq[2] = 70 -> END
           [] OTHER -> ESC
    ELSE IF Len(seq) = 3 /\ seq[1] = LBRACKET /\ seq[3] = TILDE
    THEN CASE seq[2] \in {49, 55} -> HOME
           [] seq[2] = 51 -> DEL
           [] seq[2] \in {52, 56} -> END
           [] seq[2] = 53 -> PAGE_UP
           [] seq[2] = 54 -> PAGE_DOWN
           [] OTHER -> ESC
    ELSE ESC

\* C5: editor_read_key returns Up/Down/Right/Left for ESC [ A/B/C/D,
\* Home/End for ESC [ H and ESC [ F, Home for ESC [ 1 ~ and ESC [ 7 ~, Delete
\* for ESC [ 3 ~, End for ESC [ 4 ~ and ESC [ 8 ~, PageUp for ESC [ 5 ~,
\* PageDown for ESC [ 6 ~, and the ESC byte for every other sequence that
\* begins with ESC.
C5_TableExact ==
    (kd.pc = "ret" /\ kd.c = ESC) => kd.ret = CsiTable(kd.seq)

\* C6: a lookahead is started only by a leading ESC: for every first byte b
\* other than ESC one call returns b and consumes exactly that one byte, and
\* in all cases one call consumes at most 1 + 3 bytes.
C6_LookaheadOnlyAfterEsc ==
    /\ Len(kd.consumed) <= 1 + 3
    /\ (kd.pc = "ret" /\ kd.c # ESC) => (kd.ret = kd.c /\ kd.consumed = <<kd.c>>)

(***************************************************************************)
(* Opening a file and saving it again (main.c:433-503), with the file's    *)
(* content on disk: fs.disk is the content, fs.orig what it was at start.  *)
(***************************************************************************)
\* Length of the files of the open/save round trip.
MaxDiskLen == 4

DiskFiles ==
    SeqsUpTo(FileBytes, MaxDiskLen)

\* ftruncate(fd, len) on content d
ftruncate(d, len) ==
    IF Len(d) >= len THEN SubSeq(d, 1, len)
    ELSE d \o [k \in 1..(len - Len(d)) |-> NUL]

\* write(fd, buf, len) writing only n < len bytes at offset 0 of content d
WriteShort(d, buf, n) ==
    SubSeq(buf, 1, n) \o SubSeq(d, n + 1, Len(d))

\* the file after editor_save's open / ftruncate / write ending in outcome
DiskAfterSave(d, buf, outcome) ==
    IF outcome = "written" THEN {buf}
    ELSE IF outcome = "write fails"
    THEN {WriteShort(ftruncate(d, Len(buf)), buf, n) : n \in 0..(Len(buf) - 1)}
         \cup {ftruncate(d, Len(buf))}
    ELSE {d}

InitFile ==
    /\ E = init_editor(ZeroE, WinRows, WinCols)
    /\ quit_times = QUIT_TIMES
    /\ find = FindInit
    /\ pc = "open"
    /\ term = InitTerm
    /\ op = [key |-> -1, effect |-> "none"]
    /\ ctrlq_run = 0
    /\ kd = KdIdle
    /\ \E f \in DiskFiles : fs = [disk |-> f, orig |-> f, phase |-> "closed"]
    /\ prompt = PromptIdle
    /\ out = << >>
    /\ E0 = E

\* editor_open(argv[1]) on the file
FileOpen ==
    /\ fs.phase = "closed"
    /\ E' = editor_open(E, FileName, fs.disk)
    /\ fs' = [fs EXCEPT !.phase = "opened"]
    /\ UNCHANGED <<quit_times, find, pc, term, op, ctrlq_run, kd, prompt, out, E0>>

\* editor_save of the document just opened
FileSave ==
    /\ fs.phase = "opened"
    /\ \E outcome \in SaveOutcomes :
         /\ E' = editor_save_file(E, outcome)
         /\ \E d \in DiskAfterSave(fs.disk, editor_rows_to_string(E), outcome) :
              fs' = [fs EXCEPT !.disk = d, !.phase = outcome]
    /\ UNCHANGED <<quit_times, find, pc, term, op, ctrlq_run, kd, prompt, out, E0>>

NextFile ==
    \/ FileOpen
    \/ FileSave

SpecFile ==
    InitFile /\ [][NextFile]_vars

(***************************************************************************)
(* Properties of the open/save round trip (specification SpecFile).        *)
(***************************************************************************)
LFs(f) ==
    {k \in 1..Len(f) : f[k] = LF}

\* f consists of lines each terminated by LF, and holds no CR
LFTerminated(f) ==
    /\ \A k \in 1..Len(f) : f[k] # CR
    /\ f = << >> \/ f[Len(f)] = LF

\* the i-th line of f without its LF, i from 1
Line(f, i) ==
    LET end == CHOOSE k \in LFs(f) : Cardinality({j \in LFs(f) : j <= k}) = i
        before == {j \in LFs(f) : j < end}
        start == IF before = {} THEN 1 ELSE (CHOOSE j \in before : \A h \in before : h <= j) + 1
    IN SubSeq(f, start, end - 1)

\* C4: for any input of N lines each terminated by LF (no CR), editor_open
\* produces exactly N rows whose chars are the lines without their terminator,
\* and editor_rows_to_string of the unmodified document reproduces the input
\* byte for byte; a save that succeeds leaves the file as it was.
C4_RoundTrip ==
    (fs.phase \in {"opened", "written"} /\ LFTerminated(fs.orig)) =>
        /\ numrows(E) = Cardinality(LFs(fs.orig))
        /\ \A i \in 1..numrows(E) : E.row[i].chars = Line(fs.orig, i)
        /\ editor_rows_to_string(E) = fs.orig
        /\ fs.phase = "written" => fs.disk = fs.orig

\* a file of two lines, one of them empty, opened and saved
C4_TwoLinesSaved ==
    /\ fs.phase = "written" /\ LFTerminated(fs.orig)
    /\ numrows(E) = 2 /\ TotalChars(E.row) > 0
    /\ \E i \in 1..2 : E.row[i].chars = << >>


(***************************************************************************)
(* The prompt one key at a time (main.c:742-784, called by editor_find     *)
(* main.c:552-568 and editor_save main.c:476-483).  The editor has drawn   *)
(* its first screen; pc = "prompt" while editor_prompt waits in            *)
(* editor_read_key.  prompt.keys are the keys the prompt read so far and   *)
(* prompt.calls the calls of its callback, in order; both stay as they     *)
(* were when the prompt returned until the next prompt starts.             *)
(***************************************************************************)
MaxFindFileLen == 3
MaxFindKeys == 3

\* a file of three lines that all hold the same character
ThreeAlike == <<97, LF, 97, LF, 97>>

FindFiles == SeqsUpTo({97, TAB, LF}, MaxFindFileLen) \cup {ThreeAlike}
\* the first byte of a UTF-8 letter, and what editor_read_key's `char c` makes
\* of a byte where char is signed
HighByte == 195
AsSignedChar(b) ==
    IF b >= 128 THEN b - 256 ELSE b

\* a byte >= 128 comes out of editor_read_key as itself where char is unsigned,
\* and negative where it is signed
FindKeys ==
    {97, BACKSPACE, DEL, CTRL_H, TAB, CR, ESC, ARROW_UP, ARROW_DOWN, ARROW_RIGHT,
     HighByte, AsSignedChar(HighByte)}

\* the terminal after enable_raw_mode
RawTerm ==
    [attrs |-> "raw", saved |-> TRUE, atexit |-> <<"disable_raw_mode">>,
     restore |-> "none", exit_code |-> -1]

\* main up to its loop, with one of files and without a file
Opened(files) ==
    {editor_set_status_message(
         editor_open(init_editor(ZeroE, WinRows, WinCols), FileName, f), "-- INSERT --") :
       f \in files}
    \cup {editor_set_status_message(init_editor(ZeroE, WinRows, WinCols), "-- INSERT --")}

InitPrompt ==
    /\ E \in {Refresh(e) : e \in Opened(FindFiles)}
    /\ quit_times = QUIT_TIMES
    /\ find = FindInit
    /\ pc = "loop"
    /\ term = RawTerm
    /\ op = Op(-1, "start")
    /\ ctrlq_run = 0
    /\ kd = KdIdle
    /\ fs = FsIdle
    /\ prompt = PromptIdle
    /\ out = << >>
    /\ E0 = E

\* editor_find or editor_save calls editor_prompt, which runs up to its first
\* editor_read_key; editor_find has saved the cursor and the offsets
PromptOpen(active, key, r) ==
    /\ pc = "loop"
    /\ E' = r.e
    /\ find' = r.f
    /\ prompt' = [active |-> active, buf |-> r.buf,
                  saved |-> <<E.cx, E.cy, E.columnoffset, E.rowoffset>>,
                  keys |-> << >>, calls |-> << >>, result |-> r.result]
    /\ pc' = "prompt"
    /\ op' = Op(key, "prompt")
    /\ UNCHANGED <<quit_times, term, ctrlq_run, kd, fs, out, E0>>

\* case CTRL_KEY('f')
FindStart ==
    PromptOpen("find", CTRL_F, PromptBegin("find", E, find))

\* case CTRL_KEY('s') with E.filename == NULL
SaveAsStart ==
    /\ E.filename = NULL
    /\ PromptOpen("save", CTRL_S, PromptBegin("save", E, find))

\* the prompt's locals after the iteration that read c and left r
PromptLogged(r, c) ==
    [prompt EXCEPT !.buf = r.buf, !.keys = Append(@, c),
                   !.calls = @ \o r.calls, !.result = r.result]

\* the iteration on key c leaves r and the loop goes on
PromptGoesOn(r, c) ==
    /\ r.result = "continue"
    /\ Len(prompt.keys) < MaxFindKeys
    /\ E' = r.e
    /\ find' = r.f
    /\ prompt' = PromptLogged(r, c)
    /\ UNCHANGED <<quit_times, pc, term, op, ctrlq_run, kd, fs, out, E0>>

\* the callback of the iteration on key c reads a row that is not there
PromptStrays(r, c) ==
    /\ r.result = "undefined"
    /\ E' = r.e
    /\ find' = r.f
    /\ prompt' = PromptLogged(r, c)
    /\ pc' = "undefined"
    /\ UNCHANGED <<quit_times, term, op, ctrlq_run, kd, fs, out, E0>>

\* editor_prompt returns on key c having left r; its caller has left r2, and
\* editor_process_keypress ends
PromptReturns(r, c, r2, key, effect) ==
    /\ r.result \in {"cancel", "commit"}
    /\ E' = Refresh(r2.e)
    /\ find' = r2.f
    /\ prompt' = PromptLogged(r, c)
    /\ pc' = PcAfter(E')
    /\ op' = Op(key, effect)
    /\ quit_times' = QUIT_TIMES
    /\ ctrlq_run' = 0
    /\ UNCHANGED <<term, kd, fs, out, E0>>

\* a key read by editor_prompt that does not make it return
PromptRead ==
    /\ pc = "prompt"
    /\ \E c \in FindKeys :
         \/ PromptGoesOn(PromptIter(prompt.active, E, find, prompt.buf, c), c)
         \/ PromptStrays(PromptIter(prompt.active, E, find, prompt.buf, c), c)

FindEnds(r, c) ==
    PromptReturns(r, c, FindDone(r, prompt.saved), CTRL_F, r.result)

\* the key on which editor_prompt returns to editor_find
FindReturn ==
    /\ pc = "prompt"
    /\ prompt.active = "find"
    /\ \E c \in FindKeys : FindEnds(PromptIter("find", E, find, prompt.buf, c), c)

SaveAsEnds(r, c, outcome) ==
    PromptReturns(r, c, SaveAsDone(r, outcome), CTRL_S,
                  IF r.result = "commit" THEN outcome ELSE r.result)

\* the key on which editor_prompt returns to editor_save
SaveAsReturn ==
    /\ pc = "prompt"
    /\ prompt.active = "save"
    /\ \E c \in FindKeys, outcome \in SaveOutcomes :
         SaveAsEnds(PromptIter("save", E, find, prompt.buf, c), c, outcome)

NextPrompt ==
    \/ FindStart
    \/ SaveAsStart
    \/ PromptRead
    \/ FindReturn
    \/ SaveAsReturn

SpecPrompt ==
    InitPrompt /\ [][NextPrompt]_vars


(***************************************************************************)
(* Properties of the prompt and of find (specification SpecPrompt).        *)
(***************************************************************************)
\* needle occurs in hay at offset m
Occurs(hay, needle, m) ==
    /\ m + Len(needle) <= Len(hay)
    /\ SubSeq(hay, m + 1, m + Len(needle)) = needle

Contains(hay, needle) ==
    \E m \in 0..Len(hay) : Occurs(hay, needle, m)

FirstOccurrence(hay, needle) ==
    CHOOSE m \in 0..Len(hay) :
        Occurs(hay, needle, m) /\ \A k \in 0..(m - 1) : ~Occurs(hay, needle, k)

\* the character of row whose rendering covers column m of the render
LogicalColumn(row, m) ==
    CHOOSE cx \in 0..Len(row.chars) :
        Projection(row, cx) <= m /\ (cx < Len(row.chars) => m < Projection(row, cx + 1))

\* the rows (counted from 0) whose render contains q
MatchingRows(e, q) ==
    {i \in 0..(numrows(e) - 1) : Contains(e.row[i + 1].render, q)}

PrintableKeys == 32..126
ForwardKeys == {ARROW_RIGHT, ARROW_DOWN}

Last(s) ==
    s[Len(s)]

Range(s) ==
    {s[i] : i \in 1..Len(s)}

\* the find prompt is open, has read only characters of the query and forward
\* keys, and exactly one row's render contains the query
SingleMatch ==
    /\ pc = "prompt" /\ prompt.active = "find"
    /\ prompt.buf # << >>
    /\ Range(prompt.keys) \subseteq PrintableKeys \cup ForwardKeys
    /\ Cardinality(MatchingRows(E, prompt.buf)) = 1

\* C11: in a document in which exactly one row's render contains the query,
\* after the query is typed the cursor is on that row with cx the logical
\* column of the first occurrence; each further forward key (Right/Down)
\* examines every row once, wrapping around the document, and leaves the
\* cursor on that same row and column.
C11_FindSingleMatch ==
    SingleMatch =>
        \A r \in MatchingRows(E, prompt.buf) :
            /\ E.cy = r
            /\ E.cx = LogicalColumn(E.row[r + 1],
                                    FirstOccurrence(E.row[r + 1].render, prompt.buf))
            /\ find.last_match = r
            /\ Last(prompt.keys) \in ForwardKeys =>
                 /\ Len(find.examined) = numrows(E)
                 /\ Range(find.examined) = 0..(numrows(E) - 1)
                 /\ Last(find.examined) = r

\* the query "a" typed and two forward keys pressed in a document whose second
\* row alone contains it, behind a tab
C11_WrappedToSameRow ==
    /\ SingleMatch
    /\ prompt.keys = <<97, ARROW_DOWN, ARROW_RIGHT>>
    /\ numrows(E) = 2 /\ E.row[2].chars = <<TAB, 97>>
    /\ E.cy = 1 /\ E.cx = 1
    /\ find.examined = <<0, 1>>


\* the cursor and the offsets editor_find saves
View(e) ==
    <<e.cx, e.cy, e.columnoffset, e.rowoffset>>

\* a step of a find session that ends it: ESC puts the cursor and the offsets
\* back, Enter leaves the cursor where the last match put it, and the search
\* state is reset
FindEndsAsSaid ==
    (pc = "prompt" /\ prompt.active = "find" /\ pc' # "prompt" /\ ~E'.undefined) =>
        /\ Last(prompt'.keys) \in {ESC, CR}
        /\ Last(prompt'.keys) = ESC => View(E') = prompt.saved
        /\ Last(prompt'.keys) = CR =>
             /\ E'.cx = E.cx /\ E'.cy = E.cy
             /\ find.last_match # -1 => E'.cy = find.last_match
        /\ find'.last_match = -1 /\ find'.direction = 1

\* a step of a find session leaves the rows and dirty alone
FindKeepsDocument ==
    (prompt'.active = "find" /\ (pc = "prompt" \/ pc' = "prompt")) =>
        E'.row = E.row /\ E'.dirty = E.dirty

\* C12: a find session ended with ESC restores cx, cy, rowoffset and
\* columnoffset to their values from just before find was invoked, whatever
\* keys were pressed in between; ended with Enter the cursor stays at the last
\* located match; in both cases the rows and dirty are unchanged and the
\* search state is reset (last match none, direction forward).  Whatever the
\* keys, the session stays within defined behaviour.
C12_FindRestores ==
    [][/\ FindEndsAsSaid
       /\ FindKeepsDocument
       /\ prompt'.active = "find" => ~E'.undefined]_vars

\* the part of C12 that holds of the sessions in which no key makes the
\* callback read outside the rows
C12_DefinedSessions ==
    [][FindEndsAsSaid /\ FindKeepsDocument]_vars

\* a find session that had moved the cursor down to a match and scrolled was
\* cancelled, and the cursor and the offsets are back
C12_CancelledAfterMatch ==
    /\ pc = "loop" /\ prompt.active = "find" /\ Last(prompt.keys) = ESC
    /\ prompt.keys[1] = 97 /\ Len(prompt.keys) = 2
    /\ MatchingRows(E, <<97>>) = {1}
    /\ View(E) = prompt.saved /\ E.cy = 0 /\ E.rowoffset = 0


DeleteKeys == {BACKSPACE, DEL, CTRL_H}

\* the text that keys type into buf: a printable ASCII key is appended, a
\* delete key removes the last character if there is one, any other key does
\* nothing
RECURSIVE TypedOnto(_, _)
TypedOnto(buf, keys) ==
    IF keys = << >> THEN buf
    ELSE TypedOnto(IF Head(keys) \in PrintableKeys THEN Append(buf, Head(keys))
                   ELSE IF Head(keys) \in DeleteKeys /\ buf # << >>
                   THEN SubSeq(buf, 1, Len(buf) - 1)
                   ELSE buf,
                   Tail(keys))

Typed(keys) ==
    TypedOnto(<< >>, keys)

\* a step of a prompt: it returns on ESC and on Enter with text in the buffer
\* and on nothing else, and its buffer is what the keys read have typed
PromptAsSaid ==
    pc = "prompt" =>
        /\ pc' = "loop" <=>
             \/ Last(prompt'.keys) = ESC
             \/ Last(prompt'.keys) = CR /\ prompt.buf # << >>
        /\ prompt'.result = "cancel" <=> Last(prompt'.keys) = ESC
        /\ prompt'.result = "commit" <=> (Last(prompt'.keys) = CR /\ prompt.buf # << >>)
        /\ prompt'.buf = Typed(prompt'.keys)
        /\ (prompt.active = "save" /\ prompt'.result = "commit") =>
             E'.filename = Typed(prompt'.keys)

\* C13: the prompt returns only on ESC (no value) or on Enter while the buffer
\* is non-empty (Enter on an empty buffer keeps the prompt open); the returned
\* text is exactly the printable ASCII keys typed, after each
\* Backspace/Delete/Ctrl-H removed the last character present (a no-op on an
\* empty buffer), all other keys ignored.
C13_PromptResult ==
    [][PromptAsSaid]_vars

\* the part of C13 that holds: the same of the prompts that read no byte >= 128
\* through a signed char
C13_AsciiOnly ==
    [][(\A i \in 1..Len(prompt'.keys) : prompt'.keys[i] >= 0) => PromptAsSaid]_vars


\* C14: the callback a prompt was given is invoked exactly once for every key
\* read inside the prompt, after the key has been applied to the buffer, with
\* the current buffer and that key, the ESC that cancels and the Enter that
\* commits included, and never after the prompt has returned.  A prompt without
\* a callback calls nothing.
C14_CallbackPerKey ==
    [][/\ (pc = "prompt" /\ prompt.active = "find") =>
            prompt'.calls = Append(prompt.calls, [query |-> prompt'.buf,
                                                  key |-> Last(prompt'.keys)])
       /\ (pc = "prompt" /\ prompt.active = "save") => prompt'.calls = << >>
       /\ pc # "prompt" => (prompt'.calls = prompt.calls \/ prompt'.calls = << >>)]_vars

\* a find prompt read a character, a Backspace and ESC, and the callback was
\* called on each with the buffer the key had left
C14_ThreeKeysThreeCalls ==
    /\ pc = "loop" /\ prompt.active = "find" /\ prompt.result = "cancel"
    /\ prompt.keys = <<97, BACKSPACE, ESC>>
    /\ prompt.calls = <<[query |-> <<97>>, key |-> 97],
                        [query |-> << >>, key |-> BACKSPACE],
                        [query |-> << >>, key |-> ESC]>>


\* the callback's last invocation scanned the rows for query: find.examined
\* are the rows it read, in order
Scanned(query) ==
    /\ \A i \in 1..Len(find.examined) :
         0 <= find.examined[i] /\ find.examined[i] < numrows(E)
    /\ Len(find.examined) <= numrows(E)
    /\ \A i \in 1..(Len(find.examined) - 1) :
         ~Contains(E.row[find.examined[i] + 1].render, query)
    /\ Len(find.examined) < numrows(E) =>
         /\ find.examined # << >>
         /\ Contains(E.row[Last(find.examined) + 1].render, query)

\* C20: in every invocation of the find callback, for any key and any prior
\* search state, every row index examined lies in [0, numrows), at most numrows
\* rows are examined, and the scan stops at the first row whose render contains
\* the query; an arrow key pressed as the first key of the prompt included.
C20_ScanInBounds ==
    (prompt.active = "find" /\ prompt.calls # << >>
     /\ Last(prompt.calls).key \notin {CR, ESC}) =>
        Scanned(Last(prompt.calls).query)

\* the part of C20 that holds: the same of the invocations that do not start a
\* backward scan from no match
C20_ForwardOrFromMatch ==
    (prompt.active = "find" /\ prompt.calls # << >>
     /\ Last(prompt.calls).key \notin {CR, ESC} /\ ~E.undefined) =>
        Scanned(Last(prompt.calls).query)

BackwardKeys == {ARROW_LEFT, ARROW_UP}

\* rows to go from row `from` to reach row `to` in direction dir (1 down, -1 up)
\* around a document of n rows; n to come back to the same row
StepsTo(from, to, n, dir) ==
    IF to = from THEN n ELSE ((to - from) * dir) % n

\* the row of M nearest to row m in direction dir, around a document of n rows
NearestMatch(M, m, n, dir) ==
    CHOOSE r \in M : \A s \in M : StepsTo(m, r, n, dir) <= StepsTo(m, s, n, dir)

\* the find prompt waits for a key with a query typed that several rows
\* contain, one of them the last match
SeveralMatches ==
    /\ pc = "prompt" /\ prompt.active = "find"
    /\ prompt.buf # << >>
    /\ Cardinality(MatchingRows(E, prompt.buf)) >= 2
    /\ find.last_match \in MatchingRows(E, prompt.buf)

\* the key the prompt has just read is one of keys, and the cursor is on the
\* matching row nearest to the last match in direction dir
MovedToNearest(keys, dir) ==
    Last(prompt'.keys) \in keys =>
        /\ ~E'.undefined
        /\ E'.cy = NearestMatch(MatchingRows(E, prompt.buf), find.last_match, numrows(E), dir)

\* C21: while the find prompt is open with a query that matches several rows,
\* Left/Up moves the cursor to the nearest matching row before the last match
\* (wrapping from row 0 to the last row) and Right/Down to the nearest matching
\* row after it (wrapping from the last row to row 0), whichever row the last
\* match was on.
C21_SearchDirection ==
    [][SeveralMatches => (MovedToNearest(BackwardKeys, -1) /\ MovedToNearest(ForwardKeys, 1))]_vars

\* the part of C21 that holds: the same when the last match is not on the
\* second row, and of the forward keys on every row
C21_NotFromSecondRow ==
    [][SeveralMatches =>
          /\ find.last_match # 1 => MovedToNearest(BackwardKeys, -1)
          /\ MovedToNearest(ForwardKeys, 1)]_vars

\* Up was pressed with the last match on the first of three matching rows and
\* the cursor went round to the third
C21_WrappedBackward ==
    /\ pc = "prompt" /\ prompt.active = "find"
    /\ prompt.keys = <<97, ARROW_UP>>
    /\ MatchingRows(E, prompt.buf) = {0, 1, 2}
    /\ E.cy = 2 /\ find.last_match = 2 /\ find.direction = -1


(***************************************************************************)
(* One row (main.c:265-315, 357-384): characters are inserted into it and  *)
(* deleted from it, and a column of it is converted to its render column   *)
(* (as editor_scroll does) and back (as editor_find_callback does).        *)
(***************************************************************************)
MaxRowLen == 4
MaxRowEdits == 3

InitRow ==
    /\ \E s \in SeqsUpTo(InsertKeys, MaxRowLen) : E = editor_append_row(init_editor(ZeroE, WinRows, WinCols), s)
    /\ quit_times = QUIT_TIMES
    /\ find = FindInit
    /\ pc = "row"
    /\ term = RawTerm
    /\ op = [key |-> -1, effect |-> "open"]
    /\ ctrlq_run = 0
    /\ kd = KdIdle
    /\ fs = FsIdle
    /\ prompt = PromptIdle
    /\ out = << >>
    /\ E0 = E

RowInsertChar ==
    /\ pc = "row"
    /\ E.dirty <= MaxRowEdits
    /\ Len(E.row[1].chars) < MaxRowLen
    /\ \E at \in 0..Len(E.row[1].chars), c \in InsertKeys :
         /\ E' = editor_row_insert_char(E, 0, at, c)
         /\ op' = [key |-> c, effect |-> "insert"]
    /\ UNCHANGED <<quit_times, find, pc, term, ctrlq_run, kd, fs, prompt, out, E0>>

RowDeleteChar ==
    /\ pc = "row"
    /\ E.dirty <= MaxRowEdits
    /\ \E at \in 0..(Len(E.row[1].chars) - 1) :
         /\ E' = editor_row_delete_char(E, 0, at)
         /\ op' = [key |-> at, effect |-> "delete"]
    /\ UNCHANGED <<quit_times, find, pc, term, ctrlq_run, kd, fs, prompt, out, E0>>

\* E.rx = editor_row_cx_to_rx(row, E.cx) for a column cx of the row
RowCxToRx ==
    /\ pc = "row"
    /\ \E cx \in 0..Len(E.row[1].chars) :
         /\ E' = [E EXCEPT !.cx = cx, !.rx = editor_row_cx_to_rx(E.row[1], cx)]
         /\ op' = [key |-> cx, effect |-> "cx_to_rx"]
    /\ UNCHANGED <<quit_times, find, pc, term, ctrlq_run, kd, fs, prompt, out, E0>>

\* E.cx = editor_row_rx_to_cx(row, E.rx), E.rx being a render column of the row;
\* op keeps the column that E.rx was computed from
RowRxToCx ==
    /\ pc = "row"
    /\ op.effect = "cx_to_rx"
    /\ E' = [E EXCEPT !.cx = editor_row_rx_to_cx(E.row[1], E.rx)]
    /\ op' = [key |-> E.cx, effect |-> "rx_to_cx"]
    /\ UNCHANGED <<quit_times, find, pc, term, ctrlq_run, kd, fs, prompt, out, E0>>

NextRow ==
    \/ RowInsertChar
    \/ RowDeleteChar
    \/ RowCxToRx
    \/ RowRxToCx

SpecRow ==
    InitRow /\ [][NextRow]_vars

(***************************************************************************)
(* Properties of a row (specification SpecRow).                            *)
(***************************************************************************)
\* C16: for every row and every cx with 0 <= cx <= size,
\* rx_to_cx(row, cx_to_rx(row, cx)) = cx.
C16_ColumnRoundTrip ==
    pc = "row" =>
        /\ op.effect = "rx_to_cx" => E.cx = op.key
        /\ \A cx \in 0..Len(E.row[1].chars) :
             editor_row_rx_to_cx(E.row[1], editor_row_cx_to_rx(E.row[1], cx)) = cx

\* a column behind two tabs with a character between them went to its render
\* column and came back
C16_BackFromBehindTabs ==
    /\ pc = "row" /\ op.effect = "rx_to_cx" /\ op.key = 3
    /\ SubSeq(E.row[1].chars, 1, 3) = <<TAB, 97, TAB>>
    /\ E.rx = 8 /\ E.cx = 3


\* the positions (counted from 1) of the tabs of a row
TabsOf(row) ==
    {i \in 1..Len(row.chars) : row.chars[i] = TAB}

\* C17: after any sequence of insert-char and delete-char operations on a row,
\* the row's render length rsize equals size + (number of tabs in the row) *
\* (TAB_STOP - 1).
C17_RenderLength ==
    pc = "row" =>
        rsize(E.row[1]) = Len(E.row[1].chars) + Cardinality(TabsOf(E.row[1])) * (TAB_STOP - 1)

\* C17 amended: after any sequence of insert-char and delete-char operations on
\* a row, rsize is at least size and at most size + (number of tabs in the
\* row) * (TAB_STOP - 1), and equals the latter exactly when every tab of the
\* row starts at a render column that is a multiple of TAB_STOP.
C17_RenderLengthAtMost ==
    pc = "row" =>
        /\ Len(E.row[1].chars) <= rsize(E.row[1])
        /\ rsize(E.row[1]) <=
             Len(E.row[1].chars) + Cardinality(TabsOf(E.row[1])) * (TAB_STOP - 1)
        /\ rsize(E.row[1]) =
             Len(E.row[1].chars) + Cardinality(TabsOf(E.row[1])) * (TAB_STOP - 1)
           <=> \A i \in TabsOf(E.row[1]) :
                 editor_row_cx_to_rx(E.row[1], i - 1) % TAB_STOP = 0

\* a character was deleted from a row that still holds a tab behind a
\* character: the tab is three columns wide, not four
C17_TabBehindCharacter ==
    /\ pc = "row" /\ op.effect = "delete"
    /\ E.row[1].chars = <<97, TAB, 97>>
    /\ rsize(E.row[1]) = 5


(***************************************************************************)
(* Output (main.c:572-730).  The append buffer is the sequence of what was *)
(* appended to it, in order: bytes, or the status message, of which the    *)
(* model keeps the format and not the bytes.  realloc gives ab_append the  *)
(* memory it asks for, as every allocation of the model does.              *)
(***************************************************************************)
\* the escape sequences written: "\x1b[?25l", "\x1b[?25h", "\x1b[H", "\x1b[K",
\* "\r\n", "\x1b[31m", "\x1b[39m", "\x1b[7m", "\x1b[m"
Escape ==
    [hide |-> <<27, 91, 63, 50, 53, 108>>,
     show |-> <<27, 91, 63, 50, 53, 104>>,
     home |-> <<27, 91, 72>>,
     erase |-> <<27, 91, 75>>,
     crlf |-> <<13, 10>>,
     red |-> <<27, 91, 51, 49, 109>>,
     default |-> <<27, 91, 51, 57, 109>>,
     reverse |-> <<27, 91, 55, 109>>,
     normal |-> <<27, 91, 109>>]

\* the texts written: "Kilo editor -- version 0.0.1", the licence line,
\* "[No Name]", "[+]"
Literal ==
    [welcome |-> <<75, 105, 108, 111, 32, 101, 100, 105, 116, 111, 114, 32, 45, 45, 32,
                   118, 101, 114, 115, 105, 111, 110, 32, 48, 46, 48, 46, 49>>,
     licence |-> <<67, 111, 112, 114, 105, 103, 104, 116, 32, 50, 48, 50, 49, 32, 75, 104,
                   97, 195, 175, 115, 32, 67, 79, 76, 73, 78, 32, 45, 45, 32, 71, 78, 85,
                   32, 71, 80, 76, 32, 51, 46, 48>>,
     noname |-> <<91, 78, 111, 32, 78, 97, 109, 101, 93>>,
     modified |-> <<91, 43, 93>>]

Bytes(s) ==
    [bytes |-> s, msg |-> ""]

Message(fmt) ==
    [bytes |-> << >>, msg |-> fmt]

\* ab_append(ab, s, len), s[0..len) being the bytes or the message of chunk
ab_append(ab, chunk) ==
    IF chunk = Bytes(<< >>) THEN ab ELSE Append(ab, chunk)

\* "%d"
RECURSIVE Decimal(_)
Decimal(n) ==
    IF n < 0 THEN <<45>> \o Decimal(-n)
    ELSE IF n < 10 THEN <<48 + n>>
    ELSE Decimal(n \div 10) \o <<48 + (n % 10)>>

Min(a, b) ==
    IF a < b THEN a ELSE b

\* while (padding--) ab_append(ab, " ", 1)
RECURSIVE AppendSpaces(_, _)
AppendSpaces(ab, padding) ==
    IF padding <= 0 THEN ab ELSE AppendSpaces(ab_append(ab, Bytes(<<SPACE>>)), padding - 1)

\* a line of the welcome: text cut to the screen and centred behind a tilde
DrawBannerPadded(ab, text, len, padding) ==
    ab_append(IF padding # 0
              THEN AppendSpaces(ab_append(ab, Bytes(<<TILDE>>)), padding - 1)
              ELSE ab,
              Bytes(SubSeq(text, 1, len)))

DrawBanner(e, ab, text) ==
    DrawBannerPadded(ab, text, Min(Len(text), e.screencolumns),
                     (e.screencolumns - Min(Len(text), e.screencolumns)) \div 2)

isdigit(c) ==
    48 <= c /\ c <= 57

\* the for loop over the visible characters c[0..len) of a row, from j on
RECURSIVE DrawChars(_, _, _, _)
DrawChars(ab, c, j, len) ==
    IF j >= len THEN ab
    ELSE DrawChars(IF isdigit(c[j + 1])
                   THEN ab_append(ab_append(ab_append(ab, Bytes(Escape.red)),
                                            Bytes(<<c[j + 1]>>)),
                                  Bytes(Escape.default))
                   ELSE ab_append(ab, Bytes(<<c[j + 1]>>)),
                   c, j + 1, len)

\* int len = rsize - columnoffset, kept within 0..screencolumns
VisibleLen(e, row) ==
    IF rsize(row) - e.columnoffset < 0 THEN 0
    ELSE Min(rsize(row) - e.columnoffset, e.screencolumns)

\* the text of screen line y
DrawLine(e, ab, y) ==
    IF y + e.rowoffset >= numrows(e)
    THEN IF numrows(e) = 0 /\ y = e.screenrows \div 3 THEN DrawBanner(e, ab, Literal.welcome)
         ELSE IF numrows(e) = 0 /\ y = 2 + e.screenrows \div 3 THEN DrawBanner(e, ab, Literal.licence)
         ELSE ab_append(ab, Bytes(<<TILDE>>))
    ELSE DrawChars(ab,
                   SubSeq(e.row[y + e.rowoffset + 1].render, e.columnoffset + 1,
                          rsize(e.row[y + e.rowoffset + 1])),
                   0, VisibleLen(e, e.row[y + e.rowoffset + 1]))

\* editor_draw_rows from line y on
RECURSIVE DrawRowsFrom(_, _, _)
DrawRowsFrom(e, ab, y) ==
    IF y >= e.screenrows THEN ab
    ELSE DrawRowsFrom(e, ab_append(ab_append(DrawLine(e, ab, y), Bytes(Escape.erase)), Bytes(Escape.crlf)),
                      y + 1)

editor_draw_rows(e, ab) ==
    DrawRowsFrom(e, ab, 0)


\* snprintf(status, ..., "%.20s %s", filename or "[No Name]", "[+]" if dirty)
StatusText(e) ==
    (IF e.filename # NULL THEN SubSeq(e.filename, 1, Min(Len(e.filename), 20)) ELSE Literal.noname)
    \o <<SPACE>> \o (IF e.dirty # 0 THEN Literal.modified ELSE << >>)

\* snprintf(rstatus, ..., "%d/%d %d", E.cy + 1, E.numrows, E.cx)
RightStatusText(e) ==
    Decimal(e.cy + 1) \o <<47>> \o Decimal(numrows(e)) \o <<SPACE>> \o Decimal(e.cx)

\* while (len < E.screencolumns): rstatus once it fits exactly, a space before
RECURSIVE StatusPad(_, _, _, _)
StatusPad(ab, len, cols, rstatus) ==
    IF len >= cols THEN ab
    ELSE IF cols - len = Len(rstatus) THEN ab_append(ab, Bytes(rstatus))
    ELSE StatusPad(ab_append(ab, Bytes(<<SPACE>>)), len + 1, cols, rstatus)

editor_draw_status_bar(e, ab) ==
    ab_append(
      ab_append(
        StatusPad(ab_append(ab_append(ab, Bytes(Escape.reverse)),
                            Bytes(SubSeq(StatusText(e), 1,
                                         Min(Len(StatusText(e)), e.screencolumns)))),
                  Min(Len(StatusText(e)), e.screencolumns), e.screencolumns,
                  RightStatusText(e)),
        Bytes(Escape.normal)),
      Bytes(Escape.crlf))

\* fresh: time(NULL) - E.statusmsg_time < 5; a message has a length unless it
\* is "" or the screen has no columns
editor_draw_message_bar(e, ab, fresh) ==
    IF e.statusmsg # "" /\ e.screencolumns > 0 /\ fresh
    THEN ab_append(ab_append(ab, Bytes(Escape.erase)), Message(e.statusmsg))
    ELSE ab_append(ab, Bytes(Escape.erase))

\* snprintf(buf, ..., "\x1b[%d;%dH", (E.cy - E.rowoffset) + 1, (E.rx - E.columnoffset) + 1)
CursorTo(line, column) ==
    <<ESC, LBRACKET>> \o Decimal(line) \o <<59>> \o Decimal(column) \o <<72>>

\* the frame that tears: the cursor hidden in a write of its own
Frame_torn(e, fresh) ==
    <<<<Bytes(Escape.hide)>>,
      ab_append(
        ab_append(
          editor_draw_message_bar(e,
            editor_draw_status_bar(e, editor_draw_rows(e, ab_append(<< >>, Bytes(Escape.home)))),
            fresh),
          Bytes(CursorTo((e.cy - e.rowoffset) + 1, (e.rx - e.columnoffset) + 1))),
        Bytes(Escape.show))>>

\* editor_refresh_screen after its editor_scroll: the buffers it writes, one
\* for each write()
Frame(e, fresh) ==
    <<ab_append(
        ab_append(
          editor_draw_message_bar(e,
            editor_draw_status_bar(e,
              editor_draw_rows(e, ab_append(ab_append(<< >>, Bytes(Escape.hide)),
                                            Bytes(Escape.home)))),
            fresh),
          Bytes(CursorTo((e.cy - e.rowoffset) + 1, (e.rx - e.columnoffset) + 1))),
        Bytes(Escape.show))>>

\* the scroll, and the frame of what it left, unless it read a row that is not
\* there
editor_refresh_screen(e, fresh) ==
    [e |-> Refresh(e),
     writes |-> IF Refresh(e).undefined THEN << >> ELSE Frame(Refresh(e), fresh)]


(***************************************************************************)
(* The screen (main.c:710-730, 912-927): main draws the first frame, and   *)
(* a frame after every key; `out` holds the writes of the last             *)
(* editor_refresh_screen.                                                  *)
(***************************************************************************)
MaxScreenFileLen == 2

ScreenFiles == SeqsUpTo({97, 49, TAB, LF}, MaxScreenFileLen)
ScreenKeys == MoveKeys \cup {49, TAB, CR, BACKSPACE}

InitScreen ==
    /\ E \in Opened(ScreenFiles)
    /\ quit_times = QUIT_TIMES
    /\ find = FindInit
    /\ pc = "draw"
    /\ term = RawTerm
    /\ op = Op(-1, "start")
    /\ ctrlq_run = 0
    /\ kd = KdIdle
    /\ fs = FsIdle
    /\ prompt = PromptIdle
    /\ out = << >>
    /\ E0 = E

\* editor_refresh_screen has left r
ScreenShows(r) ==
    /\ E' = r.e
    /\ out' = r.writes
    /\ pc' = PcAfter(r.e)

\* the first editor_refresh_screen of main's loop, before any key
ScreenDraw ==
    /\ pc = "draw"
    /\ \E fresh \in BOOLEAN : ScreenShows(editor_refresh_screen(E, fresh))
    /\ UNCHANGED <<quit_times, find, term, op, ctrlq_run, kd, fs, prompt, E0>>

\* editor_process_keypress on key c has left e2; the next editor_refresh_screen
ScreenAfterKey(c, e2, fresh) ==
    /\ Within(E, e2)
    /\ ScreenShows(editor_refresh_screen(e2, fresh))
    /\ op' = Op(c, Effect(E, e2))
    /\ quit_times' = IF E'.undefined THEN quit_times ELSE QUIT_TIMES
    /\ ctrlq_run' = 0
    /\ UNCHANGED <<find, term, kd, fs, prompt, E0>>

ScreenKey ==
    /\ pc = "loop"
    /\ \E c \in ScreenKeys, fresh \in BOOLEAN :
         ScreenAfterKey(c, editor_process_keypress(E, c), fresh)

NextScreen ==
    \/ ScreenDraw
    \/ ScreenKey

SpecScreen ==
    InitScreen /\ [][NextScreen]_vars


(***************************************************************************)
(* Properties of the screen (specification SpecScreen).                    *)
(***************************************************************************)
\* where the lines of the written buffer w end
LineEnds(w) ==
    {i \in 1..Len(w) : w[i] = Bytes(Escape.crlf)}

\* where line k of w ends (k from 1), and where line 0, the cursor's hiding
\* and homing, does
LineEnd(w, k) ==
    IF k = 0 THEN 2
    ELSE CHOOSE i \in LineEnds(w) : Cardinality({j \in LineEnds(w) : j < i}) = k - 1

\* the bytes of w[from..to], colours left out
RECURSIVE Text(_, _, _)
Text(w, from, to) ==
    IF from > to THEN << >>
    ELSE (IF w[from] \in {Bytes(Escape.red), Bytes(Escape.default)} THEN << >> ELSE w[from].bytes)
         \o Text(w, from + 1, to)

\* what of a row is on the screen
Visible(e, row) ==
    SubSeq(TabExpansion(row.chars), e.columnoffset + 1,
           Min(Len(TabExpansion(row.chars)), e.columnoffset + e.screencolumns))

\* line k of w is a text line: the visible part of document row rowoffset + k
\* - 1, or the line of a screen row below the document, and erase-to-end-of-line
TextLine(w, k) ==
    /\ LineEnd(w, k) - 1 > LineEnd(w, k - 1)
    /\ w[LineEnd(w, k) - 1] = Bytes(Escape.erase)
    /\ \A i \in (LineEnd(w, k - 1) + 1)..(LineEnd(w, k) - 1) : w[i] # Bytes(Escape.reverse)
    /\ IF E.rowoffset + k <= numrows(E)
       THEN Text(w, LineEnd(w, k - 1) + 1, LineEnd(w, k) - 2) = Visible(E, E.row[E.rowoffset + k])
       ELSE /\ LineEnd(w, k) - 2 > LineEnd(w, k - 1)
            /\ w[LineEnd(w, k - 1) + 1] \in {Bytes(<<TILDE>>), Bytes(SubSeq(Literal.welcome, 1, E.screencolumns))}

\* w is a whole frame: cursor-hide, cursor-home, screenrows text lines, the
\* status line, the message line, the cursor put at its place, cursor-show
FrameAsSaid(w) ==
    /\ Len(w) >= 4
    /\ w[1] = Bytes(Escape.hide)
    /\ w[2] = Bytes(Escape.home)
    /\ Cardinality(LineEnds(w)) = E.screenrows + 1
    /\ \A k \in 1..E.screenrows : TextLine(w, k)
    /\ w[LineEnd(w, E.screenrows) + 1] = Bytes(Escape.reverse)
    /\ w[LineEnd(w, E.screenrows + 1) - 1] = Bytes(Escape.normal)
    /\ w[LineEnd(w, E.screenrows + 1) + 1] = Bytes(Escape.erase)
    /\ \/ Len(w) = LineEnd(w, E.screenrows + 1) + 3
       \/ /\ Len(w) = LineEnd(w, E.screenrows + 1) + 4
          /\ w[Len(w) - 2] = Message(E.statusmsg)
    /\ w[Len(w) - 1] = Bytes(<<ESC, LBRACKET>> \o Decimal(E.cy - E.rowoffset + 1) \o <<59>>
                             \o Decimal(E.rx - E.columnoffset + 1) \o <<72>>)
    /\ w[Len(w)] = Bytes(Escape.show)

MaxPageFileLen == 5
PageWinRows == 4

PageFiles == SeqsUpTo({97, LF}, MaxPageFileLen)
PageKeys == {ARROW_UP, ARROW_DOWN, PAGE_UP, PAGE_DOWN}

InitPage ==
    /\ E \in {Refresh(editor_set_status_message(
                  editor_open(init_editor(ZeroE, PageWinRows, WinCols), FileName, f),
                  "-- INSERT --")) : f \in PageFiles}
    /\ quit_times = QUIT_TIMES
    /\ find = FindInit
    /\ pc = "loop"
    /\ term = RawTerm
    /\ op = [key |-> -1, effect |-> "open"]
    /\ ctrlq_run = 0
    /\ kd = KdIdle
    /\ fs = FsIdle
    /\ prompt = PromptIdle
    /\ out = << >>
    /\ E0 = E

\* one iteration of main's loop on key c: the handler leaves e1, the refresh
\* of the next iteration e2
PagePress(c, effect) ==
    /\ pc = "loop"
    /\ \E e1 \in {editor_process_keypress(E, c)} :
         \E e2 \in {Refresh(e1)} :
            /\ Within(E, e2)
            /\ E' = e2
            /\ pc' = PcAfter(e2)
            /\ quit_times' = IF e2.undefined THEN quit_times ELSE QUIT_TIMES
    /\ op' = [key |-> c, effect |-> effect]
    /\ ctrlq_run' = 0
    /\ UNCHANGED <<find, term, kd, fs, prompt, out, E0>>

\* a key that moves the cursor up or down, before any key is repeated
PageCursorKey ==
    /\ op.effect # "repeat"
    /\ \E c \in PageKeys : PagePress(c, "move")

\* PageDown, from now on the only key pressed
PageDownRepeat ==
    /\ op.effect = "repeat" => op.key = PAGE_DOWN
    /\ PagePress(PAGE_DOWN, "repeat")

\* PageUp, from now on the only key pressed
PageUpRepeat ==
    /\ op.effect = "repeat" => op.key = PAGE_UP
    /\ PagePress(PAGE_UP, "repeat")

NextPage ==
    \/ PageCursorKey
    \/ PageDownRepeat
    \/ PageUpRepeat

SpecPage ==
    InitPage /\ [][NextPage]_vars /\ WF_vars(PageDownRepeat) /\ WF_vars(PageUpRepeat)

(***************************************************************************)
(* Properties of paging (specification SpecPage).                          *)
(***************************************************************************)
\* the last row of the document is on the screen
EndVisible(e) ==
    e.rowoffset + e.screenrows >= numrows(e)

\* key is the only key pressed, in a document with more rows than the screen
Paging(key) ==
    /\ pc = "loop" /\ op.key = key /\ op.effect = "repeat"
    /\ numrows(E) > E.screenrows

\* this step is a press of key, repeated, in such a document
PagePressed(key) ==
    /\ pc = "loop" /\ op'.key = key /\ op'.effect = "repeat"
    /\ numrows(E) > E.screenrows

\* the part of C22 about PageUp: each press moves the window up until row 0 is
\* on the screen, and the cursor comes to row 0
C22_PageUpProgress ==
    /\ [][(PagePressed(PAGE_UP) /\ E.rowoffset > 0) => E'.rowoffset < E.rowoffset]_vars
    /\ Paging(PAGE_UP) ~> (E.cy = 0 /\ E.rowoffset = 0)

\* C22: in a document with more rows than screenrows, pressing PageDown
\* repeatedly (with a refresh after each press) eventually places the cursor
\* on the last row, each press advancing rowoffset until the end of the
\* document is visible; symmetrically PageUp repeatedly reaches row 0.
C22_PageDownProgress ==
    /\ [][(PagePressed(PAGE_DOWN) /\ ~EndVisible(E)) => E'.rowoffset > E.rowoffset]_vars
    /\ Paging(PAGE_DOWN) ~> (E.cy = numrows(E) - 1)
    /\ C22_PageUpProgress

\* PageDown is pressed again and again and the cursor stays on the last row of
\* the first screen, the rows below it never shown
C22_StuckOnFirstScreen ==
    /\ Paging(PAGE_DOWN)
    /\ E.rowoffset = 0 /\ E.cy = E.screenrows - 1
    /\ ~EndVisible(E)

\* PageUp pressed again and again has brought the cursor to row 0
C22_PagedUpToTop ==
    /\ Paging(PAGE_UP)
    /\ E.cy = 0 /\ E.rowoffset = 0

(***************************************************************************)
(* Enter and Backspace (main.c:396-429, called from the switch of          *)
(* editor_process_keypress main.c:837-858): a buffer is started empty or   *)
(* from a file, the cursor is moved, text is typed, lines are split and    *)
(* joined.  op.key is the key pressed last and E0 is E as that key   *)
(* found it.                                                               *)
(***************************************************************************)
MaxEnterFileLen == 3
MaxEnterRows == 3
MaxEnterChars == 3
MaxEnterDirty == 6

EnterFiles == SeqsUpTo({97, LF}, MaxEnterFileLen)
EnterKeys == {CR, BACKSPACE, 97, ARROW_LEFT, ARROW_RIGHT, ARROW_UP, ARROW_DOWN}

InitEnter ==
    /\ E \in {Refresh(e) : e \in Opened(EnterFiles)}
    /\ quit_times = QUIT_TIMES
    /\ find = FindInit
    /\ pc = "loop"
    /\ term = RawTerm
    /\ op = [key |-> -1, effect |-> "open"]
    /\ ctrlq_run = 0
    /\ kd = KdIdle
    /\ fs = FsIdle
    /\ prompt = PromptIdle
    /\ out = << >>
    /\ E0 = E

\* the keys pressed keep the document, dirty and the cursor within the bounds
EnterWithin(e, e2) ==
    /\ numrows(e2) > numrows(e) => numrows(e2) <= MaxEnterRows
    /\ TotalChars(e2.row) > TotalChars(e.row) => TotalChars(e2.row) <= MaxEnterChars
    /\ e2.dirty > e.dirty => e.dirty < MaxEnterDirty
    /\ e2.cy > e.cy => e2.cy <= numrows(e2) + MaxOver

\* one iteration of main's loop on key c: the handler leaves e1, the refresh
\* of the next iteration e2
EnterPress(c) ==
    /\ pc = "loop"
    /\ \E e1 \in {editor_process_keypress(E, c)} :
         \E e2 \in {Refresh(e1)} :
            /\ EnterWithin(E, e1)
            /\ E' = e2
            /\ op' = [key |-> c, effect |-> Effect(E, e1)]
            /\ pc' = PcAfter(e2)
            /\ quit_times' = IF e2.undefined THEN quit_times ELSE QUIT_TIMES
    /\ E0' = E
    /\ ctrlq_run' = 0
    /\ UNCHANGED <<find, term, kd, fs, prompt, out>>

EnterKey ==
    \E c \in EnterKeys : EnterPress(c)

NextEnter ==
    EnterKey

SpecEnter ==
    InitEnter /\ [][NextEnter]_vars

(***************************************************************************)
(* Properties of Enter and Backspace (specification SpecEnter).            *)
(***************************************************************************)
\* this step is a Backspace pressed right after Enter
BackspaceAfterEnter ==
    pc = "loop" /\ op.key = CR /\ op'.key = BACKSPACE

\* the rows and the cursor are after this step what they were before the last
\* key
Restored ==
    /\ ~E'.undefined
    /\ Chars(E'.row) = Chars(E0.row)
    /\ E'.cx = E0.cx /\ E'.cy = E0.cy

\* C23: from any reachable state, pressing Enter and then Backspace restores
\* the sequence of rows (chars and numrows) and the cursor (cx, cy) to exactly
\* what they were before Enter, whether the cursor was at column 0, mid-row,
\* at a row's end, or on the line past the last row of the document.
C23_EnterBackspace ==
    [][BackspaceAfterEnter => Restored]_vars

\* the part of C23 that holds: the same when Enter was pressed with the cursor
\* on a row of the document, at column 0, mid-row or at the row's end
C23_OnARow ==
    [][(BackspaceAfterEnter /\ OnRow(E0)) => Restored]_vars

\* Enter split a row in the middle and Backspace has joined the halves again,
\* the cursor back between them
C23_SplitAndJoined ==
    /\ pc = "loop" /\ op.key = BACKSPACE /\ op.effect = "join"
    /\ OnRow(E) /\ 0 < E.cx /\ E.cx < Len(E.row[E.cy + 1].chars)
    /\ numrows(E0) = numrows(E) + 1
    /\ E0.cy = E.cy + 1 /\ E0.cx = 0

\* Enter was pressed on the line past the last row and Backspace after it: the
\* row Enter appended is still there, the cursor below it
C23_RowLeftBehind ==
    /\ pc = "loop" /\ op.key = BACKSPACE /\ op.effect = "none"
    /\ E.cy = numrows(E) /\ numrows(E) > 0
    /\ E.row[numrows(E)].chars = << >>
    /\ E0 = E

====
